---- MODULE Spec2Model ----
(***************************************************************************)
(* Model of the interaction dispatcher of the bot template: the cooldown   *)
(* tracker (checkCommandCooldown), the permission evaluator                *)
(* (permissionUtil.js) and the slash-command path of the interactionCreate *)
(* handler (handleSlashCommand).                                           *)
(***************************************************************************)
EXTENDS Integers, Sequences, FiniteSets, Bags, TLC

(***************************************************************************)
(* Bounds of the model and program constants.                              *)
(***************************************************************************)
\* The clock runs from tick 0 to tick MaxTime.
MaxTime == 3
\* At most MaxDispatch interactions are dispatched in one behaviour of Spec,
\* and at most MaxGateDispatch in one behaviour of SpecGates.
MaxDispatch == 3
MaxGateDispatch == 2

\* TIME.SECOND, in milliseconds.
TIME_SECOND == 1000
\* config.app.cooldownDefault, in seconds.
cooldownDefault == 3
\* The clock advances in ticks of half the default cooldown, in milliseconds.
TickMs == (cooldownDefault * TIME_SECOND) \div 2

(***************************************************************************)
(* Permission tokens.  PermissionsBitField.Flags maps canonical names to   *)
(* bits; a descriptor may list a permission as a bigint flag or as a       *)
(* string name.                                                            *)
(***************************************************************************)
Flags ==
    [Administrator |-> 8, ViewChannel |-> 1024, SendMessages |-> 2048, EmbedLinks |-> 16384]

FlagNames == DOMAIN Flags
FlagBits == {Flags[n] : n \in FlagNames}

BigInt(name) == [type |-> "bigint", bit |-> Flags[name], str |-> ""]
Str(name) == [type |-> "string", bit |-> 0, str |-> name]

\* PermissionsBitField.resolve: the bit a token stands for.
Resolve(permission) ==
    IF permission.type = "bigint" THEN permission.bit ELSE Flags[permission.str]

Range(s) == {s[i] : i \in DOMAIN s}

\* A grant that resolved is a set of bits; one that did not resolve (a null
\* permissionsFor result, a raw API member whose permissions is a string) makes
\* every .has call on it throw.
Grant(bits) == [ok |-> TRUE, bits |-> bits]
Unresolved == [ok |-> FALSE, bits |-> {}]

\* PermissionsBitField.has with its default checkAdmin = true.
BitFieldHas(grant, permissionArray) ==
    \/ Flags.Administrator \in grant.bits
    \/ \A i \in DOMAIN permissionArray : Resolve(permissionArray[i]) \in grant.bits

NoMember == [present |-> FALSE, id |-> "", permissions |-> Unresolved]
Member(id, grant) == [present |-> TRUE, id |-> id, permissions |-> grant]

\* The identities permissions are resolved for: the actors and the bot itself.
Users == {"u1", "u2"}
BotId == "bot"
MemberIds == Users \cup {BotId}

\* A channel answers permissionsFor(member) per member.
NoChannel == [present |-> FALSE, permissionsFor |-> [id \in MemberIds |-> Unresolved]]
Channel(grants) == [present |-> TRUE, permissionsFor |-> grants]

\* The permissions argument: undefined, an array, or one bare permission.
Undefined == [kind |-> "undefined", list |-> <<>>]
Arr(list) == [kind |-> "array", list |-> list]
Single(p) == [kind |-> "single", list |-> <<p>>]

\* Array.isArray(permissions) ? permissions : [permissions]
PermissionArray(permissions) == permissions.list

\* ResolvedGrant with a bug: the channel is ignored.
ResolvedGrant_GuildOnly(member, channel) == member.permissions

\* The grant a check reads: the channel's when a channel is given, else the
\* member's guild-wide one.
ResolvedGrant(member, channel) ==
    IF channel.present THEN channel.permissionsFor[member.id] ELSE member.permissions

\* config.discord.ownerId && member.id === config.discord.ownerId
IsOwner(owner, member) == owner # "" /\ member.id = owner

\* hasPermissions with a bug: the owner is checked after the grant is read.
hasPermissions_OwnerAfterGrant(owner, member, permissions, channel) ==
    IF ~member.present \/ permissions.kind = "undefined" THEN FALSE
    ELSE LET grant == ResolvedGrant(member, channel)
         IN  IF ~grant.ok THEN FALSE
             ELSE IF IsOwner(owner, member) THEN TRUE
             ELSE BitFieldHas(grant, PermissionArray(permissions))

\* hasPermissions with a bug: the catch block lets the actor through.
hasPermissions_FailOpen(owner, member, permissions, channel) ==
    IF ~member.present \/ permissions.kind = "undefined" THEN FALSE
    ELSE IF IsOwner(owner, member) THEN TRUE
    ELSE LET grant == ResolvedGrant(member, channel)
         IN  IF ~grant.ok THEN TRUE
             ELSE BitFieldHas(grant, PermissionArray(permissions))

hasPermissions(owner, member, permissions, channel) ==
    IF ~member.present \/ permissions.kind = "undefined" THEN FALSE
    ELSE IF IsOwner(owner, member) THEN TRUE
    ELSE LET grant == ResolvedGrant(member, channel)
         IN  IF ~grant.ok THEN FALSE    \* the throw is caught: return false
             ELSE BitFieldHas(grant, PermissionArray(permissions))

\* Object.entries(Flags).find(value === permission): the canonical name.
FlagName(bit) == CHOOSE n \in FlagNames : Flags[n] = bit

PermissionName(permission) ==
    IF permission.type = "bigint"
    THEN IF permission.bit \in FlagBits THEN FlagName(permission.bit)
         ELSE ToString(permission.bit)
    ELSE permission.str

\* getMissingPermissions with a bug: every required permission is reported.
getMissingPermissions_AllRequired(owner, member, permissions, channel) ==
    IF ~member.present \/ permissions.kind = "undefined" THEN <<>>
    ELSE IF IsOwner(owner, member) THEN <<>>
    ELSE LET grant == ResolvedGrant(member, channel)
         IN  IF ~grant.ok THEN <<>>
             ELSE [i \in DOMAIN PermissionArray(permissions) |->
                      PermissionName(PermissionArray(permissions)[i])]

getMissingPermissions(owner, member, permissions, channel) ==
    IF ~member.present \/ permissions.kind = "undefined" THEN <<>>
    ELSE IF IsOwner(owner, member) THEN <<>>
    ELSE LET grant == ResolvedGrant(member, channel)
             NotHeld(p) == ~BitFieldHas(grant, <<p>>)
             missingPermissions == SelectSeq(PermissionArray(permissions), NotHeld)
         IN  IF ~grant.ok THEN <<>>     \* nothing to check, or the throw is caught
             ELSE [i \in DOMAIN missingPermissions |->
                      PermissionName(missingPermissions[i])]

\* guild.members.me, then hasPermissions for it.
botHasPermissions(owner, guild, permissions, channel) ==
    IF ~guild.present \/ permissions.kind = "undefined" THEN FALSE
    ELSE IF ~guild.me.present THEN FALSE
    ELSE hasPermissions(owner, guild.me, permissions, channel)

\* Title case with a space before each capital letter, for the names in use.
TitleCase ==
    [Administrator |-> "Administrator", ViewChannel |-> "View Channel",
     SendMessages |-> "Send Messages", EmbedLinks |-> "Embed Links"]

\* The lines of the formatted list, which the code joins with a bullet.
formatPermissionList(permissions) ==
    IF permissions = <<>> THEN <<"None">>
    ELSE [i \in DOMAIN permissions |->
             IF permissions[i] \in DOMAIN TitleCase THEN TitleCase[permissions[i]]
             ELSE permissions[i]]

(***************************************************************************)
(* The command registry (client.commands), as loaded at startup.           *)
(***************************************************************************)
\* config.discord.ownerId when DISCORD_OWNER_ID names an actor, and when unset.
ConfiguredOwner == "u1"
NoOwner == ""

NoCooldown == [defined |-> FALSE, secs |-> 0]
Cooldown(secs) == [defined |-> TRUE, secs |-> secs]

\* The descriptors as their modules export them: help and status are the
\* repository's own command files; purge is a command added from the README's
\* command template (cooldown: 5), with a required set of two permissions, one
\* given as a flag and one as a string, and an empty bot list.
CommandFiles ==
    [help |->
        [name |-> "help", cooldown |-> Cooldown(cooldownDefault),
         requiredPermissions |-> Undefined,
         botRequiredPermissions |-> Arr(<<BigInt("SendMessages"), BigInt("EmbedLinks")>>)],
     status |->
        [name |-> "status", cooldown |-> NoCooldown,
         requiredPermissions |-> Arr(<<BigInt("Administrator")>>),
         botRequiredPermissions |->
            Arr(<<BigInt("SendMessages"), BigInt("EmbedLinks"), BigInt("ViewChannel")>>)],
     purge |->
        [name |-> "purge", cooldown |-> Cooldown(5),
         requiredPermissions |-> Arr(<<BigInt("SendMessages"), Str("EmbedLinks")>>),
         botRequiredPermissions |-> Arr(<<>>)]]

\* loadCommand: a descriptor without a (truthy) cooldown gets the default one.
loadCommand(command) ==
    IF ~command.cooldown.defined \/ command.cooldown.secs = 0
    THEN [command EXCEPT !.cooldown = Cooldown(cooldownDefault)]
    ELSE command

Registry == [n \in DOMAIN CommandFiles |-> loadCommand(CommandFiles[n])]

CommandNames == DOMAIN Registry
\* A name no descriptor is registered under.
UnknownName == "gone"

VARIABLES
    ownerId,    \* config.discord.ownerId, fixed when the process starts
    now,        \* the clock, in ticks; Date.now() is now * TickMs
    cooldowns,  \* client.cooldowns: command name -> (user id -> arming time, ms)
    timers,     \* the bag of pending setTimeout callbacks of checkCommandCooldown
    lastPass,   \* history: per (command, user), when the cooldown gate last passed
    dispatched, \* history: how many interactions were dispatched
    last,       \* history: the last dispatched interaction and what it produced
    ev,         \* a call of the permission evaluator: its arguments and results
    pg,         \* a call of the pagination controller: its arguments and results
    sr,         \* a call of safeReply: its arguments and results
    paginators, \* client.paginators: registry key -> pagination controller
    messages,   \* the messages the bot has sent, and their collectors
    ix,         \* the interaction being handled and what the listeners did with it
    events,     \* the paginationUpdate events emitted and not handled yet
    rt,         \* a call of withRetry: its options, its loop variables, what it did
    db          \* a JsonDatabase: the file and the cache of one collection, its calls

vars == <<ownerId, now, cooldowns, timers, lastPass, dispatched, last, ev,
          pg, sr, paginators, messages, ix, events, rt, db>>

DateNow(clock) == clock * TickMs

EmptyMap == [u \in {} |-> 0]

\* (command.cooldown ?? defaultCooldown) * TIME.SECOND
CooldownAmount(command) ==
    (IF command.cooldown.defined THEN command.cooldown.secs ELSE cooldownDefault)
        * TIME_SECOND

Timer(name, userId, due) == [name |-> name, userId |-> userId, due |-> due]

\* setTimeout: one more pending callback, beside any equal one.
SetTimeout(tms, t) == tms (+) SetToBag({t})

\* checkCommandCooldown with a bug: a rejected call re-arms the entry.
checkCommandCooldown_Rearm(cds, tms, clock, command, userId) ==
    LET name == command.name
        cds1 == IF name \in DOMAIN cds THEN cds ELSE (name :> EmptyMap) @@ cds
        timestamps == cds1[name]
        cooldownAmount == CooldownAmount(command)
        expirationTime == timestamps[userId] + cooldownAmount
        armed == [cds1 EXCEPT ![name] = (userId :> DateNow(clock)) @@ timestamps]
        scheduled == SetTimeout(tms, Timer(name, userId, DateNow(clock) + cooldownAmount))
    IN  IF userId \in DOMAIN timestamps /\ DateNow(clock) < expirationTime
        THEN [isNull |-> FALSE, remainingMs |-> expirationTime - DateNow(clock),
              cooldowns |-> armed, timers |-> scheduled]
        ELSE [isNull |-> TRUE, remainingMs |-> 0, cooldowns |-> armed, timers |-> scheduled]

\* checkCommandCooldown with a bug: no clock check, any stored entry rejects.
checkCommandCooldown_NoClockCheck(cds, tms, clock, command, userId) ==
    LET name == command.name
        cds1 == IF name \in DOMAIN cds THEN cds ELSE (name :> EmptyMap) @@ cds
        timestamps == cds1[name]
        cooldownAmount == CooldownAmount(command)
        expirationTime == timestamps[userId] + cooldownAmount
    IN  IF userId \in DOMAIN timestamps
        THEN [isNull |-> FALSE, remainingMs |-> expirationTime - DateNow(clock),
              cooldowns |-> cds1, timers |-> tms]
        ELSE [isNull |-> TRUE, remainingMs |-> 0,
              cooldowns |-> [cds1 EXCEPT ![name] = (userId :> DateNow(clock)) @@ timestamps],
              timers |-> SetTimeout(tms, Timer(name, userId, DateNow(clock) + cooldownAmount))]

\* checkCommandCooldown with a bug: the actor is armed in the map of every
\* command.
checkCommandCooldown_SharedMap(cds, tms, clock, command, userId) ==
    LET name == command.name
        cds1 == IF name \in DOMAIN cds THEN cds ELSE (name :> EmptyMap) @@ cds
        timestamps == cds1[name]
        cooldownAmount == CooldownAmount(command)
        expirationTime == timestamps[userId] + cooldownAmount
    IN  IF userId \in DOMAIN timestamps /\ DateNow(clock) < expirationTime
        THEN [isNull |-> FALSE, remainingMs |-> expirationTime - DateNow(clock),
              cooldowns |-> cds1, timers |-> tms]
        ELSE [isNull |-> TRUE, remainingMs |-> 0,
              cooldowns |-> [n \in DOMAIN cds1 |-> (userId :> DateNow(clock)) @@ cds1[n]],
              timers |-> SetTimeout(tms, Timer(name, userId, DateNow(clock) + cooldownAmount))]

\* checkCommandCooldown: the value returned (isNull, or the remaining time in
\* milliseconds, which the code divides by TIME.SECOND) and the maps and timers
\* it leaves behind.
checkCommandCooldown(cds, tms, clock, command, userId) ==
    LET name == command.name
        cds1 == IF name \in DOMAIN cds THEN cds ELSE (name :> EmptyMap) @@ cds
        timestamps == cds1[name]
        cooldownAmount == CooldownAmount(command)
        expirationTime == timestamps[userId] + cooldownAmount
    IN  IF userId \in DOMAIN timestamps /\ DateNow(clock) < expirationTime
        THEN [isNull |-> FALSE, remainingMs |-> expirationTime - DateNow(clock),
              cooldowns |-> cds1, timers |-> tms]
        ELSE [isNull |-> TRUE, remainingMs |-> 0,
              cooldowns |-> [cds1 EXCEPT ![name] = (userId :> DateNow(clock)) @@ timestamps],
              timers |-> SetTimeout(tms, Timer(name, userId, DateNow(clock) + cooldownAmount))]

\* remainingCooldown.toFixed(1), in tenths of a second.
ToFixed1(remainingMs) == (remainingMs * 10 + TIME_SECOND \div 2) \div TIME_SECOND

Reply(kind, lines, tenths) == [kind |-> kind, lines |-> lines, tenths |-> tenths]

NoLength(permissions) == permissions.kind = "undefined" \/ permissions.list = <<>>

\* checkUserPermissions with a bug: an empty array is not skipped.
checkUserPermissions_NoLengthSkip(owner, interaction, command) ==
    IF command.requiredPermissions.kind = "undefined" \/ ~interaction.guild.present
    THEN [pass |-> TRUE, replies |-> <<>>]
    ELSE IF ~hasPermissions(owner, interaction.member, command.requiredPermissions,
                            interaction.channel)
    THEN [pass |-> FALSE,
          replies |-> <<Reply("Missing Permissions",
                              formatPermissionList(
                                  getMissingPermissions(owner, interaction.member,
                                      command.requiredPermissions, interaction.channel)),
                              0)>>]
    ELSE [pass |-> TRUE, replies |-> <<>>]

\* checkUserPermissions: whether the gate passed, and the replies it sent.
checkUserPermissions(owner, interaction, command) ==
    IF NoLength(command.requiredPermissions) \/ ~interaction.guild.present
    THEN [pass |-> TRUE, replies |-> <<>>]
    ELSE IF ~hasPermissions(owner, interaction.member, command.requiredPermissions,
                            interaction.channel)
    THEN LET missingPermissions ==
                 getMissingPermissions(owner, interaction.member,
                                       command.requiredPermissions, interaction.channel)
         IN  [pass |-> FALSE,
              replies |-> <<Reply("Missing Permissions",
                                  formatPermissionList(missingPermissions), 0)>>]
    ELSE [pass |-> TRUE, replies |-> <<>>]

\* checkBotPermissions: whether the gate passed, and the replies it sent.
checkBotPermissions(owner, interaction, command) ==
    IF NoLength(command.botRequiredPermissions) \/ ~interaction.guild.present
    THEN [pass |-> TRUE, replies |-> <<>>]
    ELSE IF ~botHasPermissions(owner, interaction.guild, command.botRequiredPermissions,
                               interaction.channel)
    THEN LET missingPermissions ==
                 getMissingPermissions(owner, interaction.guild.me,
                                       command.botRequiredPermissions, interaction.channel)
         IN  [pass |-> FALSE,
              replies |-> <<Reply("Missing Bot Permissions",
                                  formatPermissionList(missingPermissions), 0)>>]
    ELSE [pass |-> TRUE, replies |-> <<>>]

Outcome(result, gates, replies, executed, remainingMs, cds, tms) ==
    [result |-> result, gates |-> gates, replies |-> replies, executed |-> executed,
     remainingMs |-> remainingMs, cooldowns |-> cds, timers |-> tms]

\* handleSlashCommand with a bug: what the handler throws is not caught.
handleSlashCommand_NoCatch(owner, cds, tms, clock, interaction, handlerThrows) ==
    IF interaction.commandName \notin CommandNames
    THEN Outcome("notfound", <<"lookup">>, <<Reply("Command Not Found", <<>>, 0)>>,
                 FALSE, 0, cds, tms)
    ELSE
    LET command == Registry[interaction.commandName]
        cd == checkCommandCooldown(cds, tms, clock, command, interaction.userId)
        user == checkUserPermissions(owner, interaction, command)
        bot == checkBotPermissions(owner, interaction, command)
    IN  IF ~cd.isNull
        THEN Outcome("cooldown", <<"lookup", "cooldown">>,
                     <<Reply("Command on Cooldown", <<>>, ToFixed1(cd.remainingMs))>>,
                     FALSE, cd.remainingMs, cd.cooldowns, cd.timers)
        ELSE IF ~user.pass
        THEN Outcome("false", <<"lookup", "cooldown", "user">>, user.replies,
                     FALSE, 0, cd.cooldowns, cd.timers)
        ELSE IF ~bot.pass
        THEN Outcome("false", <<"lookup", "cooldown", "user", "bot">>, bot.replies,
                     FALSE, 0, cd.cooldowns, cd.timers)
        ELSE IF handlerThrows
        THEN Outcome("threw", <<"lookup", "cooldown", "user", "bot">>,
                     <<>>, TRUE, 0, cd.cooldowns, cd.timers)
        ELSE Outcome("true", <<"lookup", "cooldown", "user", "bot">>, <<>>,
                     TRUE, 0, cd.cooldowns, cd.timers)

\* handleSlashCommand with a bug: the permission gates come before the
\* cooldown gate.
handleSlashCommand_PermissionsFirst(owner, cds, tms, clock, interaction, handlerThrows) ==
    IF interaction.commandName \notin CommandNames
    THEN Outcome("notfound", <<"lookup">>, <<Reply("Command Not Found", <<>>, 0)>>,
                 FALSE, 0, cds, tms)
    ELSE
    LET command == Registry[interaction.commandName]
        cd == checkCommandCooldown(cds, tms, clock, command, interaction.userId)
        user == checkUserPermissions(owner, interaction, command)
        bot == checkBotPermissions(owner, interaction, command)
    IN  IF ~user.pass
        THEN Outcome("false", <<"lookup", "user">>, user.replies, FALSE, 0, cds, tms)
        ELSE IF ~bot.pass
        THEN Outcome("false", <<"lookup", "user", "bot">>, bot.replies, FALSE, 0, cds, tms)
        ELSE IF ~cd.isNull
        THEN Outcome("cooldown", <<"lookup", "user", "bot", "cooldown">>,
                     <<Reply("Command on Cooldown", <<>>, ToFixed1(cd.remainingMs))>>,
                     FALSE, cd.remainingMs, cd.cooldowns, cd.timers)
        ELSE IF handlerThrows
        THEN Outcome("false", <<"lookup", "user", "bot", "cooldown">>,
                     <<Reply("Command Error", <<>>, 0)>>, TRUE, 0, cd.cooldowns, cd.timers)
        ELSE Outcome("true", <<"lookup", "user", "bot", "cooldown">>, <<>>,
                     TRUE, 0, cd.cooldowns, cd.timers)

\* handleSlashCommand with a bug: the cooldown map of the name is created
\* before the command is looked up.
handleSlashCommand_MapBeforeLookup(owner, cds, tms, clock, interaction, handlerThrows) ==
    IF interaction.commandName \notin CommandNames
    THEN Outcome("notfound", <<"lookup">>, <<Reply("Command Not Found", <<>>, 0)>>,
                 FALSE, 0,
                 (interaction.commandName :> EmptyMap) @@ cds, tms)
    ELSE
    LET command == Registry[interaction.commandName]
        cd == checkCommandCooldown(cds, tms, clock, command, interaction.userId)
        user == checkUserPermissions(owner, interaction, command)
        bot == checkBotPermissions(owner, interaction, command)
    IN  IF ~cd.isNull
        THEN Outcome("cooldown", <<"lookup", "cooldown">>,
                     <<Reply("Command on Cooldown", <<>>, ToFixed1(cd.remainingMs))>>,
                     FALSE, cd.remainingMs, cd.cooldowns, cd.timers)
        ELSE IF ~user.pass
        THEN Outcome("false", <<"lookup", "cooldown", "user">>, user.replies,
                     FALSE, 0, cd.cooldowns, cd.timers)
        ELSE IF ~bot.pass
        THEN Outcome("false", <<"lookup", "cooldown", "user", "bot">>, bot.replies,
                     FALSE, 0, cd.cooldowns, cd.timers)
        ELSE IF handlerThrows
        THEN Outcome("false", <<"lookup", "cooldown", "user", "bot">>,
                     <<Reply("Command Error", <<>>, 0)>>, TRUE, 0, cd.cooldowns, cd.timers)
        ELSE Outcome("true", <<"lookup", "cooldown", "user", "bot">>, <<>>,
                     TRUE, 0, cd.cooldowns, cd.timers)

\* handleSlashCommand with a bug: the cooldown is given back when a
\* permission gate rejects or the handler throws.
handleSlashCommand_RollsBack(owner, cds, tms, clock, interaction, handlerThrows) ==
    IF interaction.commandName \notin CommandNames
    THEN Outcome("notfound", <<"lookup">>, <<Reply("Command Not Found", <<>>, 0)>>,
                 FALSE, 0, cds, tms)
    ELSE
    LET command == Registry[interaction.commandName]
        cd == checkCommandCooldown(cds, tms, clock, command, interaction.userId)
        user == checkUserPermissions(owner, interaction, command)
        bot == checkBotPermissions(owner, interaction, command)
    IN  IF ~cd.isNull
        THEN Outcome("cooldown", <<"lookup", "cooldown">>,
                     <<Reply("Command on Cooldown", <<>>, ToFixed1(cd.remainingMs))>>,
                     FALSE, cd.remainingMs, cd.cooldowns, cd.timers)
        ELSE IF ~user.pass
        THEN Outcome("false", <<"lookup", "cooldown", "user">>, user.replies,
                     FALSE, 0, cds, tms)
        ELSE IF ~bot.pass
        THEN Outcome("false", <<"lookup", "cooldown", "user", "bot">>, bot.replies,
                     FALSE, 0, cds, tms)
        ELSE IF handlerThrows
        THEN Outcome("false", <<"lookup", "cooldown", "user", "bot">>,
                     <<Reply("Command Error", <<>>, 0)>>, TRUE, 0, cds, tms)
        ELSE Outcome("true", <<"lookup", "cooldown", "user", "bot">>, <<>>,
                     TRUE, 0, cd.cooldowns, cd.timers)

\* handleSlashCommand on the maps cds and timers tms at time clock: what it
\* returns, the gates it evaluated in order, the replies it handed to
\* safeReply, whether command.execute was called, and the maps it leaves.
handleSlashCommand(owner, cds, tms, clock, interaction, handlerThrows) ==
    IF interaction.commandName \notin CommandNames
    THEN Outcome("notfound", <<"lookup">>, <<Reply("Command Not Found", <<>>, 0)>>,
                 FALSE, 0, cds, tms)
    ELSE
    LET command == Registry[interaction.commandName]
        cd == checkCommandCooldown(cds, tms, clock, command, interaction.userId)
        user == checkUserPermissions(owner, interaction, command)
        bot == checkBotPermissions(owner, interaction, command)
    IN  IF ~cd.isNull
        THEN Outcome("cooldown", <<"lookup", "cooldown">>,
                     <<Reply("Command on Cooldown", <<>>, ToFixed1(cd.remainingMs))>>,
                     FALSE, cd.remainingMs, cd.cooldowns, cd.timers)
        ELSE IF ~user.pass
        THEN Outcome("false", <<"lookup", "cooldown", "user">>, user.replies,
                     FALSE, 0, cd.cooldowns, cd.timers)
        ELSE IF ~bot.pass
        THEN Outcome("false", <<"lookup", "cooldown", "user", "bot">>, bot.replies,
                     FALSE, 0, cd.cooldowns, cd.timers)
        ELSE IF handlerThrows
        THEN Outcome("false", <<"lookup", "cooldown", "user", "bot">>,
                     <<Reply("Command Error", <<>>, 0)>>, TRUE, 0, cd.cooldowns, cd.timers)
        ELSE Outcome("true", <<"lookup", "cooldown", "user", "bot">>, <<>>,
                     TRUE, 0, cd.cooldowns, cd.timers)

(***************************************************************************)
(* The interactions the gateway may deliver.                               *)
(***************************************************************************)
NoGuild == [present |-> FALSE, me |-> NoMember]
Guild(me) == [present |-> TRUE, me |-> me]

AdminBits == {Flags.Administrator}
PartBits == {Flags.SendMessages, Flags.EmbedLinks}
FullBits == {Flags.SendMessages, Flags.EmbedLinks, Flags.ViewChannel}

\* The grants the actor and the bot may hold in the scope that is checked.
UserGrants == {Grant({}), Grant({Flags.SendMessages}), Grant(AdminBits), Unresolved}
BotGrants == {Grant(PartBits), Grant(FullBits), Unresolved}

\* The grant held in the scope that is not checked differs from the checked one.
OtherUserGrant(g) == IF g = Grant({}) THEN Grant(AdminBits) ELSE Grant({})
OtherBotGrant(g) == IF g = Grant(FullBits) THEN Grant(PartBits) ELSE Grant(FullBits)

\* An invocation in a direct message: no guild, no member.
DirectInteraction(name, userId) ==
    [commandName |-> name, userId |-> userId, guild |-> NoGuild,
     member |-> NoMember, channel |-> NoChannel]

\* An invocation in a guild, with the channel known (scoped) or not.
GuildInteraction(name, userId, scoped, ug, bg) ==
    [commandName |-> name, userId |-> userId,
     guild |-> Guild(Member(BotId, IF scoped THEN OtherBotGrant(bg) ELSE bg)),
     member |-> Member(userId, IF scoped THEN OtherUserGrant(ug) ELSE ug),
     channel |-> IF scoped
                 THEN Channel([id \in MemberIds |-> IF id = BotId THEN bg ELSE ug])
                 ELSE NoChannel]

\* Every interaction of the model: any name, actor, scope and grants.
Interactions ==
    {DirectInteraction(n, u) : n \in CommandNames \cup {UnknownName}, u \in Users}
    \cup {GuildInteraction(UnknownName, u, FALSE, Grant({}), Grant(PartBits)) : u \in Users}
    \cup {GuildInteraction(n, u, sc, ug, bg) :
            n \in CommandNames, u \in Users, sc \in BOOLEAN,
            ug \in UserGrants, bg \in BotGrants}

\* The interactions of the timed specification: two of the commands, in a
\* direct message, in a guild where the actor holds nothing, and in a guild
\* where the bot lacks ViewChannel.
TimedNames == {"help", "status"}

TimedInteractions ==
    {DirectInteraction(n, u) : n \in TimedNames \cup {UnknownName}, u \in Users}
    \cup {GuildInteraction(n, u, FALSE, Grant({}), Grant(FullBits)) :
            n \in TimedNames, u \in Users}
    \cup {GuildInteraction(n, u, FALSE, Grant(AdminBits), Grant(PartBits)) :
            n \in TimedNames, u \in Users}

NoInteraction == DirectInteraction("", "")

(***************************************************************************)
(* Calls of the permission evaluator on its own.                           *)
(***************************************************************************)
\* Required permission arrays hold at most MaxPermissions tokens.
MaxPermissions == 2

Tokens == {BigInt("Administrator"), BigInt("SendMessages"), Str("EmbedLinks")}

RECURSIVE SeqsUpTo(_, _)
SeqsUpTo(S, n) ==
    IF n = 0 THEN {<<>>}
    ELSE LET shorter == SeqsUpTo(S, n - 1)
         IN  shorter \cup {Append(q, x) : q \in shorter, x \in S}

PermissionArgs ==
    {Undefined} \cup {Single(p) : p \in Tokens}
    \cup {Arr(q) : q \in SeqsUpTo(Tokens, MaxPermissions)}

EvalGrants ==
    {Unresolved}
    \cup {Grant(b) : b \in SUBSET {Flags.Administrator, Flags.SendMessages, Flags.EmbedLinks}}

EvalMembers == {NoMember} \cup {Member(id, g) : id \in Users, g \in EvalGrants}
EvalChannels == {NoChannel} \cup {Channel([id \in MemberIds |-> g]) : g \in EvalGrants}

EvalCall(member, permissions, channel, guild) ==
    [phase |-> "called", member |-> member, permissions |-> permissions,
     channel |-> channel, guild |-> guild,
     allowed |-> FALSE, missing |-> <<>>, gate |-> FALSE, gateReplies |-> <<>>]

NoEval == [EvalCall(NoMember, Undefined, NoChannel, FALSE) EXCEPT !.phase = "none"]


(***************************************************************************)
(* The pagination controller (createPaginatedEmbed).                       *)
(***************************************************************************)
DEFAULT_ITEMS_PER_PAGE == 5

Min(a, b) == IF a < b THEN a ELSE b
Max(a, b) == IF a > b THEN a ELSE b

\* Math.ceil(a / b), for a >= 0 and b >= 1.
Ceil(a, b) == (a + b - 1) \div b

\* items.slice(startIdx, endIdx) for 0 <= startIdx: positions are 0-indexed
\* and endIdx is exclusive.
Slice(items, startIdx, endIdx) ==
    LET from == Min(startIdx, Len(items))
        to == Max(from, Min(endIdx, Len(items)))
    IN  SubSeq(items, from + 1, to)

\* An item of a backing list, and what the caller's formatItemFn makes of it:
\* a field name and value, either of which may come out empty.
Item(id, blank) == [id |-> id, blank |-> blank]

formatItemFn(item) ==
    [of |-> item.id,
     name |-> IF item.blank = "name" THEN "" ELSE "name",
     value |-> IF item.blank = "value" THEN "" ELSE "value"]

\* Template literals render numbers in decimal.
DigitChars == <<"0", "1", "2", "3", "4", "5", "6", "7", "8", "9">>

RECURSIVE NumberToString(_)
NumberToString(n) ==
    IF n < 0 THEN <<"-">> \o NumberToString(0 - n)
    ELSE IF n < 10 THEN <<DigitChars[n + 1]>>
    ELSE NumberToString(n \div 10) \o <<DigitChars[(n % 10) + 1]>>

\* PageLabel with a bug: the label shows the 0-based index.
PageLabel_ZeroBased(currentPage, pageCount) ==
    NumberToString(currentPage) \o <<"/">> \o NumberToString(pageCount)

\* `${currentPage + 1}/${pageCount}`
PageLabel(currentPage, pageCount) ==
    NumberToString(currentPage + 1) \o <<"/">> \o NumberToString(pageCount)

\* `Showing ${startIdx + 1}-${endIdx} of ${items.length} items`
ShowingText(from, to, length) ==
    <<"Showing ">> \o NumberToString(from) \o <<"-">> \o NumberToString(to)
    \o <<" of ">> \o NumberToString(length) \o <<" items">>

\* createEmbed({ title, description, footerText }) and the fields added to it.
createEmbed(title, description, footerText, fields) ==
    [title |-> title, description |-> description, footerText |-> footerText,
     fields |-> fields]

NoLabel == <<>>

createButton(customId, label, disabled) ==
    [customId |-> customId, label |-> label, disabled |-> disabled]

_createPaginationButtons(currentPage, pageCount) ==
    LET isFirstPage == currentPage = 0
        isLastPage == currentPage = pageCount - 1
    IN  << createButton("first", NoLabel, isFirstPage),
           createButton("prev", NoLabel, isFirstPage),
           createButton("page", PageLabel(currentPage, pageCount), TRUE),
           createButton("next", NoLabel, isLastPage),
           createButton("last", NoLabel, isLastPage) >>

createButtonRow(buttons) == [components |-> buttons]

\* embed.addFields for each formatted item that has a name and a value.
RECURSIVE AddFields(_)
AddFields(pageItems) ==
    IF pageItems = <<>> THEN <<>>
    ELSE LET formatted == formatItemFn(Head(pageItems))
         IN  (IF formatted.name # "" /\ formatted.value # "" THEN <<formatted>> ELSE <<>>)
             \o AddFields(Tail(pageItems))

\* createPaginatedEmbed with a bug: the page count is rounded down.
createPaginatedEmbed_Floor(items, itemsPerPageOption) ==
    LET itemsPerPage == IF itemsPerPageOption = 0 THEN DEFAULT_ITEMS_PER_PAGE
                        ELSE itemsPerPageOption
        pageCount == Len(items) \div itemsPerPage
    IN  [pageCount |-> pageCount,
         getPage |-> [items |-> items, itemsPerPage |-> itemsPerPage,
                      pageCount |-> pageCount]]

\* createPaginatedEmbed(items, formatItemFn, options): the controller object
\* { getPage, pageCount }; getPage is a closure over items, itemsPerPage and
\* pageCount.  An option that is absent or 0 gives the default page size.
createPaginatedEmbed(items, itemsPerPageOption) ==
    LET itemsPerPage == IF itemsPerPageOption = 0 THEN DEFAULT_ITEMS_PER_PAGE
                        ELSE itemsPerPageOption
        pageCount == Ceil(Len(items), itemsPerPage)
    IN  [pageCount |-> pageCount,
         getPage |-> [items |-> items, itemsPerPage |-> itemsPerPage,
                      pageCount |-> pageCount]]

\* getPage with a bug: every item of the slice becomes a field.
getPage_KeepsBlank(paginator, page) ==
    LET closure == paginator.getPage
        currentPage == Max(0, Min(page, closure.pageCount - 1))
        startIdx == currentPage * closure.itemsPerPage
        endIdx == Min(startIdx + closure.itemsPerPage, Len(closure.items))
        pageItems == Slice(closure.items, startIdx, endIdx)
        embed == createEmbed("Results",
                             ShowingText(startIdx + 1, endIdx, Len(closure.items)),
                             <<"Page ">> \o PageLabel(currentPage, closure.pageCount),
                             [i \in 1..Len(pageItems) |-> formatItemFn(pageItems[i])])
    IN  [embeds |-> <<embed>>,
         components |->
            <<createButtonRow(_createPaginationButtons(currentPage, closure.pageCount))>>,
         currentPage |-> currentPage]

\* paginator.getPage(page)
getPage(paginator, page) ==
    LET closure == paginator.getPage
        currentPage == Max(0, Min(page, closure.pageCount - 1))
        startIdx == currentPage * closure.itemsPerPage
        endIdx == Min(startIdx + closure.itemsPerPage, Len(closure.items))
        pageItems == Slice(closure.items, startIdx, endIdx)
        embed == createEmbed("Results",
                             ShowingText(startIdx + 1, endIdx, Len(closure.items)),
                             <<"Page ">> \o PageLabel(currentPage, closure.pageCount),
                             AddFields(pageItems))
    IN  [embeds |-> <<embed>>,
         components |->
            <<createButtonRow(_createPaginationButtons(currentPage, closure.pageCount))>>,
         currentPage |-> currentPage]

\* calculateNewPage with a bug: navigation wraps around.
calculateNewPage_Wraps(customId, currentPage, totalPages) ==
    CASE customId = "first" -> 0
      [] customId = "prev" -> IF currentPage = 0 THEN totalPages - 1 ELSE currentPage - 1
      [] customId = "next" -> IF currentPage = totalPages - 1 THEN 0 ELSE currentPage + 1
      [] customId = "last" -> totalPages - 1
      [] OTHER -> currentPage

\* calculateNewPage(customId, currentPage, totalPages)
calculateNewPage(customId, currentPage, totalPages) ==
    CASE customId = "first" -> 0
      [] customId = "prev" -> Max(0, currentPage - 1)
      [] customId = "next" -> Min(totalPages - 1, currentPage + 1)
      [] customId = "last" -> totalPages - 1
      [] OTHER -> currentPage

(***************************************************************************)
(* Calls of the pagination controller on its own.                          *)
(***************************************************************************)
\* Backing lists hold at most MaxItems items, the itemsPerPage option is at
\* most MaxPerPage (0: not given), and getPage is asked for pages from
\* -MaxOvershoot up to MaxOvershoot past the longest list.
MaxItems == 23
MaxPerPage == 5
MaxOvershoot == 2

\* Which items formatItemFn gives an empty name or value.
BlankPatterns == {"none", "first", "last"}

Items(n, pattern) ==
    [i \in 1..n |->
        Item(i, IF pattern = "first" /\ i = 1 THEN "value"
                ELSE IF pattern = "last" /\ i = n THEN "name"
                ELSE "none")]

PageNumbers == (0 - MaxOvershoot)..(MaxItems + MaxOvershoot)

NoPaginator == [pageCount |-> 0]
NoPage == [embeds |-> <<>>, components |-> <<>>, currentPage |-> 0]

PagerCall(items, itemsPerPageOption) ==
    [phase |-> "new", items |-> items, itemsPerPage |-> itemsPerPageOption,
     paginator |-> NoPaginator, page |-> 0, rendered |-> NoPage]

NoPagerCall == [PagerCall(<<>>, 0) EXCEPT !.phase = "none"]

(***************************************************************************)
(* safeReply.                                                              *)
(***************************************************************************)
\* Reply options: the deprecated ephemeral property (FALSE also when it is
\* absent) and the flags array, which may be absent.
NoFlags == [present |-> FALSE, list |-> <<>>]
FlagList(list) == [present |-> TRUE, list |-> list]

Options(ephemeral, flags, content) ==
    [ephemeral |-> ephemeral, flags |-> flags, content |-> content]

Includes(list, x) == \E i \in 1..Len(list) : list[i] = x

\* createEphemeralReplyOptions(options)
createEphemeralReplyOptions(content) ==
    Options(FALSE, FlagList(<<"Ephemeral">>), content)

\* What safeReply does with the interaction: which method it calls.
Acknowledged(interaction) == interaction.replied \/ interaction.deferred

\* One send: interaction.reply or interaction.followUp with the options
\* given; it fails when the network or the API says so.
Send(interaction, options, fails) ==
    [method |-> IF ~Acknowledged(interaction) THEN "reply" ELSE "followUp",
     ephemeral |-> options.ephemeral, flags |-> options.flags,
     content |-> options.content, ok |-> ~fails]

\* The options safeReply sends: flags instead of the ephemeral property.
UpdatedOptions(options) ==
    IF options.ephemeral
    THEN [options EXCEPT
            !.ephemeral = FALSE,
            !.flags = FlagList(IF Includes(options.flags.list, "Ephemeral")
                               THEN options.flags.list
                               ELSE Append(options.flags.list, "Ephemeral"))]
    ELSE options

\* The options of the retry: the ephemeral property deleted and the flag
\* filtered out of the flags array, when there is one.
NewOptions(options) ==
    [options EXCEPT
        !.ephemeral = FALSE,
        !.flags = IF options.flags.present
                  THEN FlagList(SelectSeq(UpdatedOptions(options).flags.list,
                                          LAMBDA flag : flag # "Ephemeral"))
                  ELSE NoFlags]

WantsEphemeral(options) ==
    options.ephemeral
    \/ (options.flags.present /\ Includes(options.flags.list, "Ephemeral"))

Fails(faults) == faults # <<>> /\ Head(faults)
Rest(faults) == IF faults = <<>> THEN <<>> ELSE Tail(faults)

SafeReplyResult(attempts, value, threw, replied) ==
    [attempts |-> attempts, value |-> value, threw |-> threw, replied |-> replied]

\* safeReply with a bug: a failed send is retried once whatever the options.
safeReply_AlwaysRetry(interaction, options, faults) ==
    LET first == Send(interaction, UpdatedOptions(options), Fails(faults))
        second == Send(interaction, NewOptions(options), Fails(Rest(faults)))
    IN  IF first.ok
        THEN SafeReplyResult(<<first>>, "message", FALSE,
                             interaction.replied \/ first.method = "reply")
        ELSE SafeReplyResult(<<first, second>>,
                             IF second.ok THEN "message" ELSE "undefined", FALSE,
                             interaction.replied \/ (second.ok /\ second.method = "reply"))

\* safeReply(interaction, options): the sends it attempted in order, what it
\* resolved to, whether it threw, and interaction.replied afterwards.  The
\* sends fail as faults says, one entry per attempt.
RECURSIVE safeReply(_, _, _)
safeReply(interaction, options, faults) ==
    LET first == Send(interaction, UpdatedOptions(options), Fails(faults))
    IN  IF first.ok
        THEN SafeReplyResult(<<first>>, "message", FALSE,
                             interaction.replied \/ first.method = "reply")
        ELSE IF WantsEphemeral(options)
        THEN LET retry == safeReply(interaction, NewOptions(options), Rest(faults))
             IN  SafeReplyResult(<<first>> \o retry.attempts,
                                 IF retry.threw THEN "undefined" ELSE retry.value,
                                 FALSE, retry.replied)
        ELSE SafeReplyResult(<<first>>, "undefined", FALSE, interaction.replied)

(***************************************************************************)
(* Calls of safeReply on its own.                                          *)
(***************************************************************************)
\* A send is attempted at most MaxAttempts + 1 times in the fault patterns.
MaxAttempts == 2

FlagLists ==
    {NoFlags, FlagList(<<>>), FlagList(<<"Ephemeral">>), FlagList(<<"SuppressEmbeds">>),
     FlagList(<<"SuppressEmbeds", "Ephemeral">>),
     FlagList(<<"Ephemeral", "SuppressEmbeds">>)}

ReplyOptions ==
    {Options(e, f, "text") : e \in BOOLEAN, f \in FlagLists}

InteractionStates ==
    {[replied |-> FALSE, deferred |-> FALSE], [replied |-> TRUE, deferred |-> FALSE],
     [replied |-> FALSE, deferred |-> TRUE]}

RECURSIVE FaultPatterns(_)
FaultPatterns(n) ==
    IF n = 0 THEN {<<>>}
    ELSE {<<b>> \o q : b \in BOOLEAN, q \in FaultPatterns(n - 1)}

ReplyCall(interaction, options, faults) ==
    [phase |-> "called", interaction |-> interaction, options |-> options,
     faults |-> faults, result |-> SafeReplyResult(<<>>, "undefined", FALSE, FALSE)]

NoReplyCall ==
    [ReplyCall([replied |-> FALSE, deferred |-> FALSE], Options(FALSE, NoFlags, ""), <<>>)
        EXCEPT !.phase = "none"]

(***************************************************************************)
(* Paginated messages and the pagination registry (client.paginators).     *)
(***************************************************************************)
ITEMS_PER_PAGE == 5

NoCollector == [live |-> FALSE, userId |-> "", pagination |-> NoPaginator, currentPage |-> 0]

\* A message: what it shows (embeds, component rows), the collector the
\* command that sent it attached to it, and, as history, who sent it and the
\* index and count of the page last rendered into it.
NoMessage ==
    [sent |-> FALSE, by |-> "", threw |-> FALSE, embeds |-> <<>>, components |-> <<>>,
     page |-> 0, pageCount |-> 0, collector |-> NoCollector]

Posted(by, rendered, paginator) ==
    [sent |-> TRUE, by |-> by, threw |-> FALSE, embeds |-> rendered.embeds,
     components |-> rendered.components,
     page |-> rendered.currentPage, pageCount |-> paginator.pageCount,
     collector |-> NoCollector]

\* `paginator:${message.id}`
PaginatorKey(messageId) == <<"paginator:", messageId>>

NoPaginators == [key \in {} |-> NoPaginator]

\* sendPaginatedMessage(interaction, items, formatItemFn, options): the send
\* it made, the message that exists afterwards, the registry afterwards and
\* whether it threw.  The controller object has the members getPage and
\* pageCount; calling a member it does not have is a TypeError, which the
\* function logs and rethrows.
sendPaginatedMessage(registry, interaction, messageId, items, itemsPerPageOption, sendFails) ==
    LET paginator == createPaginatedEmbed(items,
                        IF itemsPerPageOption = 0 THEN ITEMS_PER_PAGE
                        ELSE itemsPerPageOption)
        initialPage == getPage(paginator, 0)
        method == IF ~Acknowledged(interaction) THEN "reply" ELSE "followUp"
    IN  IF sendFails
        THEN [threw |-> TRUE, method |-> method, message |-> NoMessage,
              paginators |-> registry]
        ELSE IF "register" \in DOMAIN paginator
        THEN [threw |-> FALSE, method |-> method,
              message |-> Posted("sendPaginatedMessage", initialPage, paginator),
              paginators |-> (PaginatorKey(messageId) :> paginator) @@ registry]
        ELSE [threw |-> TRUE, method |-> method,
              message |-> Posted("sendPaginatedMessage", initialPage, paginator),
              paginators |-> registry]

\* setupMemberPagination and setupPaginationCollector of server-info (the list
\* path of help has the same shape): nothing for an empty list; otherwise the
\* first page is sent as a follow-up and a collector for the invoker's clicks
\* on the navigation buttons is attached to the message.
setupMemberPagination(userId, members, sendFails) ==
    LET pagination == createPaginatedEmbed(members, ITEMS_PER_PAGE)
    IN  IF Len(members) = 0 \/ sendFails
        THEN NoMessage
        ELSE [Posted("setupMemberPagination", getPage(pagination, 0), pagination)
                EXCEPT !.collector = [live |-> TRUE, userId |-> userId,
                                      pagination |-> pagination, currentPage |-> 0]]

(***************************************************************************)
(* The interaction dispatcher: buttons, menus, modals, autocomplete.       *)
(***************************************************************************)
IsDigit(c) == \E d \in 0..9 : DigitChars[d + 1] = c
DigitValue(c) == CHOOSE d \in 0..9 : DigitChars[d + 1] = c

RECURSIVE ParseDigits(_, _)
ParseDigits(s, acc) ==
    IF s = <<>> \/ ~IsDigit(Head(s)) THEN acc
    ELSE ParseDigits(Tail(s), acc * 10 + DigitValue(Head(s)))

\* parseInt(s, 10) of a string that starts with a digit or a minus sign.
parseInt(s) ==
    IF s # <<>> /\ Head(s) = "-" THEN 0 - ParseDigits(Tail(s), 0)
    ELSE ParseDigits(s, 0)

\* label.split('/'): the first two parts.
SplitLabel(label) ==
    LET slashes == {i \in 1..Len(label) : label[i] = "/"}
        first == IF slashes = {} THEN Len(label) + 1
                 ELSE CHOOSE i \in slashes : \A j \in slashes : i <= j
        later == {i \in slashes : i > first}
        second == IF later = {} THEN Len(label) + 1
                  ELSE CHOOSE i \in later : \A j \in later : i <= j
    IN  [currentStr |-> SubSeq(label, 1, first - 1),
         totalStr |-> SubSeq(label, first + 1, second - 1)]

\* extractPaginationInfo(message): throws when the first row has no page
\* indicator.
extractPaginationInfo(message) ==
    LET components == IF message.components = <<>> THEN <<>>
                      ELSE message.components[1].components
        indicators == {i \in 1..Len(components) : components[i].customId = "page"}
    IN  IF indicators = {}
        THEN [threw |-> TRUE, currentPage |-> 0, totalPages |-> 0]
        ELSE LET pageIndicator ==
                     components[CHOOSE i \in indicators : \A j \in indicators : i <= j]
                 parts == SplitLabel(pageIndicator.label)
             IN  [threw |-> FALSE,
                  currentPage |-> parseInt(parts.currentStr) - 1,
                  totalPages |-> parseInt(parts.totalStr)]

\* An acknowledgement of the interaction (deferUpdate, update): it throws
\* when the interaction is acknowledged already or when the call fails.
Acknowledge(interaction, by, method, fails) ==
    [by |-> by, method |-> method, ok |-> ~Acknowledged(interaction) /\ ~fails,
     embed |-> "", stripped |-> FALSE]

\* interaction.update({ embeds: [embed], components: [] }): the title of the
\* embed it shows, all components removed.
UpdateStripped(interaction, by, title, fails) ==
    [Acknowledge(interaction, by, "update", fails) EXCEPT
        !.embed = title, !.stripped = TRUE]

\* What a handler did to one interaction: whether it threw, the
\* acknowledgements and the safeReply sends it attempted, the events it
\* emitted, and the interaction's replied and deferred flags afterwards.
Handled(threw, acks, sends, emitted, replied, deferred) ==
    [threw |-> threw, acks |-> acks, sends |-> sends, emitted |-> emitted,
     replied |-> replied, deferred |-> deferred]

\* A handler that answers with one ephemeral notice through safeReply.
Notice(interaction, title, faults) ==
    LET reply == safeReply(interaction, createEphemeralReplyOptions(title), faults)
    IN  Handled(reply.threw, <<>>, reply.attempts, <<>>, reply.replied,
                interaction.deferred)

\* handlePaginationError(interaction, error)
handlePaginationError(interaction, faults) ==
    [Notice(interaction, "Pagination Error", faults) EXCEPT !.threw = FALSE]

PaginationUpdateEvent(interaction, oldPage, newPage) ==
    [name |-> "paginationUpdate", messageId |-> interaction.messageId,
     message |-> interaction.message, oldPage |-> oldPage, newPage |-> newPage]

\* handlePaginationButton(interaction)
handlePaginationButton(interaction, ackFails, faults) ==
    LET info == extractPaginationInfo(interaction.message)
        newPage == calculateNewPage(interaction.customId, info.currentPage,
                                    info.totalPages)
        ack == Acknowledge(interaction, "dispatcher", "deferUpdate", ackFails)
        failed(acks) == [handlePaginationError(interaction, faults) EXCEPT !.acks = acks]
    IN  IF info.threw THEN failed(<<>>)
        ELSE IF newPage = info.currentPage
        THEN IF ack.ok
             THEN Handled(FALSE, <<ack>>, <<>>, <<>>, interaction.replied, TRUE)
             ELSE failed(<<ack>>)
        ELSE IF ack.ok
        THEN Handled(FALSE, <<ack>>, <<>>,
                     <<PaginationUpdateEvent(interaction, info.currentPage, newPage)>>,
                     interaction.replied, TRUE)
        ELSE Handled(FALSE, <<ack>>, <<>>, <<>>, interaction.replied,
                     interaction.deferred)

\* An event nobody listens to.
PlainEvent(name) ==
    [name |-> name, messageId |-> "", message |-> NoMessage, oldPage |-> 0, newPage |-> 0]

\* handleConfirmationButton with a bug: the event is emitted before the
\* message is updated.
handleConfirmationButton_EmitsFirst(interaction, ackFails) ==
    LET confirmed == interaction.customId = "confirm"
        ack == UpdateStripped(interaction, "dispatcher",
                              IF confirmed THEN "Action Confirmed" ELSE "Action Cancelled",
                              ackFails)
    IN  Handled(~ack.ok, <<ack>>, <<>>,
                IF confirmed
                THEN <<PlainEvent("confirmationAccepted")>>
                ELSE <<PlainEvent("confirmationRejected")>>,
                interaction.replied \/ ack.ok, interaction.deferred)

\* handleConfirmationButton(interaction): interaction.update is not guarded,
\* so the event is emitted only when the update went through.
handleConfirmationButton(interaction, ackFails) ==
    LET confirmed == interaction.customId = "confirm"
        ack == UpdateStripped(interaction, "dispatcher",
                              IF confirmed THEN "Action Confirmed" ELSE "Action Cancelled",
                              ackFails)
    IN  Handled(~ack.ok, <<ack>>, <<>>,
                IF ~ack.ok THEN <<>>
                ELSE IF confirmed
                THEN <<PlainEvent("confirmationAccepted")>>
                ELSE <<PlainEvent("confirmationRejected")>>,
                interaction.replied \/ ack.ok, interaction.deferred)

NavigationIds == {"first", "prev", "next", "last"}

\* handleButtonInteraction(interaction)
handleButtonInteraction(interaction, ackFails, faults) ==
    IF interaction.customId \in {"confirm", "cancel"}
    THEN handleConfirmationButton(interaction, ackFails)
    ELSE IF interaction.customId \in NavigationIds
    THEN handlePaginationButton(interaction, ackFails, faults)
    ELSE Notice(interaction, "Not Implemented", faults)

\* handleSelectMenuInteraction with a bug: the menu is left unanswered.
handleSelectMenuInteraction_Silent(interaction, faults) ==
    Handled(FALSE, <<>>, <<>>, <<>>, interaction.replied, interaction.deferred)

\* handleSelectMenuInteraction and handleModalSubmitInteraction
handleSelectMenuInteraction(interaction, faults) ==
    Notice(interaction, "Not Implemented", faults)

handleModalSubmitInteraction(interaction, faults) ==
    Notice(interaction, "Not Implemented", faults)

\* The commands that export an autocomplete handler.
Autocompleters == {"help"}

\* handleAutocompleteInteraction(interaction): the handler's fault is caught.
handleAutocompleteInteraction(interaction, autocompleteThrows) ==
    IF interaction.commandName \notin CommandNames \cap Autocompleters
    THEN Handled(FALSE, <<>>, <<>>, <<>>, interaction.replied, interaction.deferred)
    ELSE LET respond == Acknowledge(interaction, "autocomplete", "respond",
                                    autocompleteThrows)
         IN  [Handled(~respond.ok, <<respond>>, <<>>, <<>>, interaction.replied,
                      interaction.deferred)
                EXCEPT !.threw = FALSE]

\* The part of execute that handles a slash command: handleSlashCommand has
\* produced out, and each reply it made went through safeReply.  A handler
\* that threw may have replied before it did.
slashCommandSends(interaction, out, handlerReplied, faults) ==
    LET state == [interaction EXCEPT !.replied = out.executed /\ handlerReplied]
    IN  IF out.replies = <<>>
        THEN Handled(FALSE, <<>>, <<>>, <<>>, state.replied, state.deferred)
        ELSE Notice(state, out.replies[1].kind, faults)

\* The body of the try block of execute: the interaction is routed by kind.
Route(interaction, out, env) ==
    CASE interaction.kind = "command" ->
            slashCommandSends(interaction, out, env.handlerReplied, env.faults)
      [] interaction.kind = "button" ->
            handleButtonInteraction(interaction, env.ackFails, env.faults)
      [] interaction.kind = "select" ->
            handleSelectMenuInteraction(interaction, env.faults)
      [] interaction.kind = "modal" ->
            handleModalSubmitInteraction(interaction, env.faults)
      [] interaction.kind = "autocomplete" ->
            handleAutocompleteInteraction(interaction, env.handlerThrows)
      [] OTHER ->
            Handled(FALSE, <<>>, <<>>, <<>>, interaction.replied, interaction.deferred)

\* execute with a bug: the routing is not inside a try block.
execute_NoCatch(interaction, out, env) ==
    Route(interaction, out, env)

\* execute(interaction) of the interactionCreate listener: whatever a handler
\* throws is caught and logged.
execute(interaction, out, env) ==
    [Route(interaction, out, env) EXCEPT !.threw = FALSE]

(***************************************************************************)
(* The paginationUpdate listener.                                          *)
(***************************************************************************)
ExpiredEmbed(currentEmbed) ==
    createEmbed(IF currentEmbed.title # "" THEN currentEmbed.title ELSE "Information",
                <<"This paginated content has expired. Please run the command again to view fresh data.">>,
                <<"Pagination expired due to bot restart or timeout">>,
                <<>>)

\* What a listener did to the message: nothing, or an edit that went through
\* or failed.
NoEdit == [tried |-> FALSE, ok |-> FALSE, embeds |-> <<>>, components |-> <<>>,
           page |-> 0]
Edit(embeds, components, page, fails) ==
    [tried |-> TRUE, ok |-> ~fails, embeds |-> embeds, components |-> components,
     page |-> page]

\* handleExpiredPaginatorSafely(interaction, message): its own try block
\* catches a failed edit.
handleExpiredPaginatorSafely(message, editFails) ==
    IF message.embeds # <<>>
    THEN [threw |-> FALSE, path |-> "expired",
          edit |-> Edit(<<ExpiredEmbed(message.embeds[1])>>, <<>>, 0, editFails)]
    ELSE [threw |-> FALSE, path |-> "expired", edit |-> NoEdit]

\* The body of the try block of the listener.
paginationUpdateBody(registry, data, message, editFails) ==
    IF message.components = <<>>
    THEN [threw |-> FALSE, path |-> "nocomponents", edit |-> NoEdit]
    ELSE IF PaginatorKey(data.messageId) \notin DOMAIN registry
    THEN handleExpiredPaginatorSafely(message, editFails)
    ELSE LET pageContent == getPage(registry[PaginatorKey(data.messageId)], data.newPage)
         IN  [threw |-> editFails, path |-> "page",
              edit |-> Edit(pageContent.embeds, pageContent.components,
                            pageContent.currentPage, editFails)]

\* execute(data) of the paginationUpdate listener.
paginationUpdate(registry, data, message, editFails) ==
    [paginationUpdateBody(registry, data, message, editFails) EXCEPT !.threw = FALSE]

\* The edit applied to the message it was made on.
Edited(message, edit) ==
    IF edit.tried /\ edit.ok
    THEN [message EXCEPT !.embeds = edit.embeds, !.components = edit.components,
                         !.page = edit.page]
    ELSE message

(***************************************************************************)
(* The collectors of help and server-info.                                 *)
(***************************************************************************)
\* The filter of the collector.
CollectorFilter(collector, interaction) ==
    interaction.userId = collector.userId /\ interaction.customId \in NavigationIds

\* collector.on('collect'): the page moves, then the interaction is updated
\* with it; a failed update is caught.
collect(collector, interaction, updateFails) ==
    LET pageCount == collector.pagination.pageCount
        currentPage ==
            CASE interaction.customId = "first" -> 0
              [] interaction.customId = "prev" -> Max(0, collector.currentPage - 1)
              [] interaction.customId = "next" -> Min(pageCount - 1, collector.currentPage + 1)
              [] interaction.customId = "last" -> pageCount - 1
              [] OTHER -> collector.currentPage
        rendered == getPage(collector.pagination, currentPage)
        ack == Acknowledge(interaction, "collector", "update", updateFails)
    IN  [collector |-> [collector EXCEPT !.currentPage = currentPage],
         ack |-> ack,
         edit |-> Edit(rendered.embeds, rendered.components, rendered.currentPage, ~ack.ok)]

(***************************************************************************)
(* The events the gateway delivers besides slash commands in a guild.      *)
(***************************************************************************)
\* At most MaxEvents events are delivered, incidents lists hold at most
\* MaxIncidents incidents, and a member list fills at most MaxMemberPages pages.
MaxEvents == 3
MaxIncidents == 2
MaxMemberPages == 2

MessageIds == {"m1"}

\* An interaction as the listeners see it: its kind, what it refers to, and
\* its replied and deferred flags.
EventInteraction(kind, command, customId, userId, messageId, message) ==
    [kind |-> kind, command |-> command, commandName |-> command.commandName,
     customId |-> customId, userId |-> userId,
     messageId |-> messageId, message |-> message,
     replied |-> FALSE, deferred |-> FALSE]

NoOutcome(cds, tms) == Outcome("none", <<>>, <<>>, FALSE, 0, cds, tms)

\* The interaction being handled, the listeners that have not handled it yet,
\* and, as history, what the listeners did with it.
NoUpdate == [path |-> "none", edit |-> NoEdit, messageId |-> "", newPage |-> 0]

NoEvent ==
    [interaction |-> EventInteraction("none", NoInteraction, "", "", "", NoMessage),
     pending |-> {}, result |-> "none", executed |-> FALSE,
     acks |-> <<>>, sends |-> <<>>, emitted |-> <<>>, escaped |-> FALSE,
     update |-> NoUpdate]

\* The slash commands of this specification, in a direct message.
EventCommands ==
    {DirectInteraction(n, "u1") : n \in {"help", UnknownName}}

\* What the environment decides while a listener runs: which calls fail and
\* what the command handler does.
Environments ==
    [handlerThrows : BOOLEAN, handlerReplied : BOOLEAN, ackFails : BOOLEAN,
     faults : FaultPatterns(2)]

\* The clicks that can be made on message m as it is now.
Clicks(m, message) ==
    IF ~message.sent \/ message.components = <<>> THEN {}
    ELSE {EventInteraction("button", NoInteraction, id, u, m, message) :
            id \in NavigationIds, u \in Users}

\* The other interactions.
OtherInteractions ==
    {EventInteraction("command", c, "", c.userId, "", NoMessage) : c \in EventCommands}
    \cup {EventInteraction("button", NoInteraction, id, "u1", "", NoMessage) :
            id \in {"confirm", "cancel", "other"}}
    \cup {EventInteraction(k, NoInteraction, "", "u1", "", NoMessage) :
            k \in {"select", "modal", "contextmenu"}}
    \cup {EventInteraction("autocomplete", DirectInteraction(n, "u1"), "", "u1", "",
                           NoMessage) : n \in {"help", "status", UnknownName}}

PagesStarted ==
    /\ paginators = NoPaginators
    /\ messages = [m \in MessageIds |-> NoMessage]
    /\ ix = NoEvent
    /\ events = <<>>

(***************************************************************************)
(* withRetry of the helpers.                                               *)
(***************************************************************************)
\* HELPERS_CONSTANTS.RETRY_DEFAULTS
MAX_RETRIES == 3
INITIAL_DELAY_MS == 1000
BACKOFF_FACTOR == 2

\* A property of the options object: given with a value, or left out.
Given(value) == [given |-> TRUE, value |-> value]
LeftOut == [given |-> FALSE, value |-> 0]

\* options.x || DEFAULT: the default replaces a value left out and a falsy one.
OrDefault(option, default) ==
    IF option.given /\ option.value # 0 THEN option.value ELSE default

\* A call of withRetry(fn, options) before its first statement has run.
RetryCall(maxRetries, initialDelay, backoffFactor) ==
    [phase |-> "called",
     options |-> [maxRetries |-> maxRetries, initialDelay |-> initialDelay,
                  backoffFactor |-> backoffFactor],
     maxRetries |-> 0, initialDelay |-> 0, backoffFactor |-> 0,
     delay |-> 0, attempt |-> 0, lastError |-> 0,
     outcomes |-> <<>>, sleeps |-> <<>>, value |-> 0, thrown |-> 0]

NoRetry == RetryCall(LeftOut, LeftOut, LeftOut)

\* The options a caller supplies: maxRetries up to MaxRetriesOption.
MaxRetriesOption == 2

RetryOptions ==
    [maxRetries : {LeftOut} \cup {Given(m) : m \in 0..MaxRetriesOption},
     initialDelay : {LeftOut, Given(0), Given(100)},
     backoffFactor : {LeftOut, Given(1), Given(3)}]

(***************************************************************************)
(* JsonDatabase: one collection, its file, its cache entry, and calls that *)
(* are suspended at their awaits.                                          *)
(***************************************************************************)
Doc(id, v) == [id |-> id, v |-> v]

\* The calls: insert(document), updateById(id, updates), deleteById(id),
\* deleteAll().
Insert(document) == [op |-> "insert", id |-> document.id, document |-> document]
UpdateById(id, v) == [op |-> "updateById", id |-> id, document |-> Doc(id, v)]
DeleteById(id) == [op |-> "deleteById", id |-> id, document |-> Doc(id, 0)]
DeleteAll == [op |-> "deleteAll", id |-> "", document |-> Doc("", 0)]

\* The documents of the file when the database is opened.
StoredDocs == <<Doc("a", 0), Doc("b", 0)>>

\* The calls a client makes.
DbOperations ==
    {Insert(Doc("c", 0)), Insert(Doc("d", 0)), UpdateById("a", 1), UpdateById("b", 1),
     UpdateById("z", 1), DeleteById("a"), DeleteById("z"), DeleteAll}

\* At most MaxDbCalls calls are made, by the callers of Callers.
MaxDbCalls == 2
Callers == {"p1", "p2"}

\* No array: the cache has no entry, a call holds no array.
NoArray == 0

NoDbCall ==
    [pc |-> "idle", operation |-> DeleteAll, data |-> NoArray, out |-> NoArray,
     json |-> <<>>, result |-> "none", before |-> <<>>]

\* The arrays allocated (an array is named by its position in heap), the
\* cache entry of the collection, the documents in its file, the calls, and
\* as history the documents the file had at first, the calls made in order,
\* and whether a read or a write has failed.
Database(heap, cache, file) ==
    [heap |-> heap, cache |-> cache, file |-> file, opened |-> file,
     log |-> <<>>, failed |-> FALSE, calls |-> [p \in Callers |-> NoDbCall]]

NoDatabase == Database(<<>>, NoArray, <<>>)

\* this.cache.get(collection) when cached, else what the file holds: what
\* findAll resolves to when no call is in flight.
FindAllNow(d) == IF d.cache # NoArray THEN d.heap[d.cache] ELSE d.file

\* data.map(item => item.id === id ? { ...item, ...updates, id } : item)
MapUpdate(data, id, document) ==
    [i \in 1..Len(data) |-> IF data[i].id = id THEN document ELSE data[i]]

\* data.filter(item => item.id !== id)
FilterOut(data, id) == SelectSeq(data, LAMBDA item : item.id # id)

\* data.find(item => item.id === id) finds a document.
Finds(data, id) == \E i \in 1..Len(data) : data[i].id = id

\* No pass of the cooldown gate has been recorded.
NoPass == 0 - 1

\* No interaction was dispatched since the clock or a timer last moved.
Idle ==
    [interaction |-> NoInteraction, time |-> 0, prevPass |-> NoPass,
     result |-> "none", gates |-> <<>>, replies |-> <<>>,
     executed |-> FALSE, remainingMs |-> 0]

\* The state of the dispatcher when the process has started.
Started ==
    /\ now = 0
    /\ cooldowns = [n \in {} |-> EmptyMap]
    /\ timers = EmptyBag
    /\ lastPass = [n \in CommandNames, u \in Users |-> NoPass]
    /\ dispatched = 0
    /\ last = Idle

Init ==
    /\ ownerId = ConfiguredOwner
    /\ ev = NoEval
    /\ Started
    /\ pg = NoPagerCall
    /\ sr = NoReplyCall
    /\ PagesStarted
    /\ rt = NoRetry
    /\ db = NoDatabase

\* A slash command arrives and execute routes it to handleSlashCommand.
SlashCommand(interaction, handlerThrows) ==
    LET out == handleSlashCommand(ownerId, cooldowns, timers, now, interaction, handlerThrows)
        name == interaction.commandName
        userId == interaction.userId
        known == name \in CommandNames
        passed == known /\ out.result # "cooldown"
    IN  /\ cooldowns' = out.cooldowns
        /\ timers' = out.timers
        /\ lastPass' = IF passed THEN [lastPass EXCEPT ![name, userId] = DateNow(now)]
                       ELSE lastPass
        /\ dispatched' = dispatched + 1
        /\ last' = [interaction |-> interaction, time |-> DateNow(now),
                    prevPass |-> IF known THEN lastPass[name, userId] ELSE NoPass,
                    result |-> out.result, gates |-> out.gates, replies |-> out.replies,
                    executed |-> out.executed, remainingMs |-> out.remainingMs]
        /\ UNCHANGED <<rt, db, ownerId, now, ev, pg, sr, paginators, messages, ix, events>>

\* A setTimeout callback of checkCommandCooldown runs: timestamps.delete(userId).
FireTimer(t) ==
    /\ BagIn(t, timers)
    /\ t.due <= DateNow(now)
    /\ timers' = timers (-) SetToBag({t})
    /\ cooldowns' = [cooldowns EXCEPT ![t.name] =
                        [u \in DOMAIN @ \ {t.userId} |-> @[u]]]
    /\ last' = Idle
    /\ UNCHANGED <<rt, db, ownerId, now, lastPass, dispatched, ev,
                   pg, sr, paginators, messages, ix, events>>

\* Time passes.
Tick ==
    /\ now < MaxTime
    /\ now' = now + 1
    /\ last' = Idle
    /\ UNCHANGED <<rt, db, ownerId, cooldowns, timers, lastPass, dispatched, ev,
                   pg, sr, paginators, messages, ix, events>>

\* The gateway delivers one of the interactions of I.
Dispatch(I, max) ==
    /\ dispatched < max
    /\ \E i \in I, handlerThrows \in BOOLEAN : SlashCommand(i, handlerThrows)

TimerFires == \E t \in BagToSet(timers) : FireTimer(t)

Next ==
    \/ Dispatch(TimedInteractions, MaxDispatch)
    \/ TimerFires
    \/ Tick

Spec == Init /\ [][Next]_vars

\* A burst of interactions, of any kind, dispatched within one clock tick.
NextGates == Dispatch(Interactions, MaxGateDispatch)

SpecGates == Init /\ [][NextGates]_vars

\* The evaluator is called with any owner configuration and any arguments.
InitEval ==
    /\ ownerId \in {NoOwner, ConfiguredOwner}
    /\ ev \in {EvalCall(m, p, c, g) : m \in EvalMembers, p \in PermissionArgs,
                                      c \in EvalChannels, g \in BOOLEAN}
    /\ Started
    /\ pg = NoPagerCall
    /\ sr = NoReplyCall
    /\ PagesStarted
    /\ rt = NoRetry
    /\ db = NoDatabase

\* hasPermissions and getMissingPermissions return, and so does the actor
\* permission gate of a command whose requiredPermissions is the argument.
Evaluate ==
    /\ ev.phase = "called"
    /\ LET gate == checkUserPermissions(ownerId,
                        [guild |-> IF ev.guild THEN Guild(NoMember) ELSE NoGuild,
                         member |-> ev.member, channel |-> ev.channel],
                        [requiredPermissions |-> ev.permissions])
       IN  ev' = [ev EXCEPT
                    !.phase = "returned",
                    !.allowed = hasPermissions(ownerId, ev.member, ev.permissions, ev.channel),
                    !.missing = getMissingPermissions(ownerId, ev.member, ev.permissions,
                                                      ev.channel),
                    !.gate = gate.pass,
                    !.gateReplies = gate.replies]
    /\ UNCHANGED <<rt, db, ownerId, now, cooldowns, timers, lastPass, dispatched, last,
                   pg, sr, paginators, messages, ix, events>>

NextEval == Evaluate

SpecEval == InitEval /\ [][NextEval]_vars

(***************************************************************************)
(* The pagination controller on its own: a controller is built over any    *)
(* list and page size, then asked for pages.                               *)
(***************************************************************************)
InitPager ==
    /\ ownerId = ConfiguredOwner
    /\ ev = NoEval
    /\ Started
    /\ sr = NoReplyCall
    /\ PagesStarted
    /\ rt = NoRetry
    /\ db = NoDatabase
    /\ pg \in {PagerCall(Items(n, b), k) :
                 n \in 0..MaxItems, b \in BlankPatterns, k \in 0..MaxPerPage}

\* createPaginatedEmbed returns the controller.
CreatePaginator ==
    /\ pg.phase = "new"
    /\ pg' = [pg EXCEPT !.phase = "built",
                        !.paginator = createPaginatedEmbed(pg.items, pg.itemsPerPage)]
    /\ UNCHANGED <<rt, db, ownerId, now, cooldowns, timers, lastPass, dispatched, last, ev,
                   sr, paginators, messages, ix, events>>

\* paginator.getPage(page) returns the page.
GetPage(page) ==
    /\ pg.phase \in {"built", "rendered"}
    /\ pg' = [pg EXCEPT !.phase = "rendered", !.page = page,
                        !.rendered = getPage(pg.paginator, page)]
    /\ UNCHANGED <<rt, db, ownerId, now, cooldowns, timers, lastPass, dispatched, last, ev,
                   sr, paginators, messages, ix, events>>

RenderPage == \E page \in PageNumbers : GetPage(page)

NextPager == CreatePaginator \/ RenderPage

SpecPager == InitPager /\ [][NextPager]_vars

(***************************************************************************)
(* safeReply on its own: any options, any interaction state, and sends     *)
(* that fail in any pattern.                                               *)
(***************************************************************************)
InitReply ==
    /\ ownerId = ConfiguredOwner
    /\ ev = NoEval
    /\ Started
    /\ pg = NoPagerCall
    /\ PagesStarted
    /\ rt = NoRetry
    /\ db = NoDatabase
    /\ sr \in {ReplyCall(i, o, f) : i \in InteractionStates, o \in ReplyOptions,
                                    f \in FaultPatterns(MaxAttempts + 1)}

\* safeReply settles.
SafeReply ==
    /\ sr.phase = "called"
    /\ sr' = [sr EXCEPT !.phase = "returned",
                        !.result = safeReply(sr.interaction, sr.options, sr.faults)]
    /\ UNCHANGED <<rt, db, ownerId, now, cooldowns, timers, lastPass, dispatched, last, ev,
                   pg, paginators, messages, ix, events>>

NextReply == SafeReply

SpecReply == InitReply /\ [][NextReply]_vars

(***************************************************************************)
(* Events: the gateway delivers interactions to the interactionCreate      *)
(* listener and to the collectors, the listeners handle them, commands     *)
(* send paginated messages, and paginationUpdate events are handled.       *)
(***************************************************************************)
Quiet == ix.pending = {} /\ events = <<>>

\* The gateway delivers an interaction: execute of interactionCreate will run
\* for it, and so will the collector of the clicked message if it is live and
\* its filter lets the click through.
Deliver(interaction) ==
    /\ Quiet
    /\ dispatched < MaxEvents
    /\ dispatched' = dispatched + 1
    /\ ix' = [NoEvent EXCEPT
                !.interaction = interaction,
                !.pending =
                    {"dispatcher"} \cup
                    (IF interaction.messageId \in MessageIds
                        /\ messages[interaction.messageId].collector.live
                        /\ CollectorFilter(messages[interaction.messageId].collector,
                                           interaction)
                     THEN {"collector"} ELSE {})]
    /\ UNCHANGED <<rt, db, ownerId, now, cooldowns, timers, lastPass, last, ev, pg, sr,
                   paginators, messages, events>>

Gateway ==
    \/ \E i \in OtherInteractions : Deliver(i)
    \/ \E m \in MessageIds : \E i \in Clicks(m, messages[m]) : Deliver(i)

\* execute of the interactionCreate listener handles the interaction.
InteractionCreate(env) ==
    /\ "dispatcher" \in ix.pending
    /\ LET interaction == ix.interaction
           out == IF interaction.kind = "command"
                  THEN handleSlashCommand(ownerId, cooldowns, timers, now,
                                          interaction.command, env.handlerThrows)
                  ELSE NoOutcome(cooldowns, timers)
           done == execute(interaction, out, env)
       IN  /\ cooldowns' = out.cooldowns
           /\ timers' = out.timers
           /\ ix' = [ix EXCEPT
                        !.pending = @ \ {"dispatcher"},
                        !.interaction.replied = done.replied,
                        !.interaction.deferred = done.deferred,
                        !.result = out.result,
                        !.executed = out.executed,
                        !.acks = @ \o done.acks,
                        !.sends = done.sends,
                        !.emitted = done.emitted,
                        !.escaped = @ \/ done.threw]
           /\ events' = events \o SelectSeq(done.emitted,
                                            LAMBDA e : e.name = "paginationUpdate")
    /\ UNCHANGED <<rt, db, ownerId, now, lastPass, dispatched, last, ev, pg, sr,
                   paginators, messages>>

DispatcherListener == \E env \in Environments : InteractionCreate(env)

\* The collector of the clicked message handles the click.
Collect(updateFails) ==
    /\ "collector" \in ix.pending
    /\ LET m == ix.interaction.messageId
           done == collect(messages[m].collector, ix.interaction, updateFails)
       IN  /\ messages' = [messages EXCEPT
                             ![m] = [Edited(@, done.edit) EXCEPT
                                        !.collector = done.collector]]
           /\ ix' = [ix EXCEPT
                        !.pending = @ \ {"collector"},
                        !.interaction.replied = @ \/ done.ack.ok,
                        !.acks = Append(@, done.ack)]
    /\ UNCHANGED <<rt, db, ownerId, now, cooldowns, timers, lastPass, dispatched, last, ev,
                   pg, sr, paginators, events>>

CollectorListener == \E updateFails \in BOOLEAN : Collect(updateFails)

\* execute of the paginationUpdate listener handles the oldest event.  The
\* message it reads is the one the interaction carried, as it was at the click
\* or as the cache has patched it since.
PaginationUpdate(message, editFails) ==
    /\ events # <<>>
    /\ LET data == Head(events)
           done == paginationUpdate(paginators, data, message, editFails)
       IN  /\ messages' = [messages EXCEPT ![data.messageId] = Edited(@, done.edit)]
           /\ ix' = [ix EXCEPT
                        !.escaped = @ \/ done.threw,
                        !.update = [path |-> done.path, edit |-> done.edit,
                                    messageId |-> data.messageId,
                                    newPage |-> data.newPage]]
    /\ events' = Tail(events)
    /\ UNCHANGED <<rt, db, ownerId, now, cooldowns, timers, lastPass, dispatched, last, ev,
                   pg, sr, paginators>>

PaginationUpdateListener ==
    /\ events # <<>>
    /\ \E message \in {Head(events).message, messages[Head(events).messageId]},
          editFails \in BOOLEAN :
            PaginationUpdate(message, editFails)

\* A command handler (discord-status incidents) calls sendPaginatedMessage on
\* its deferred interaction.
SendPaginatedMessage(m, items, sendFails) ==
    /\ Quiet
    /\ dispatched < MaxEvents
    /\ ~messages[m].sent
    /\ LET done == sendPaginatedMessage(paginators,
                                        [replied |-> FALSE, deferred |-> TRUE],
                                        m, items, 1, sendFails)
       IN  /\ paginators' = done.paginators
           /\ messages' = [messages EXCEPT ![m] = [done.message EXCEPT
                                                     !.threw = done.threw]]
    /\ dispatched' = dispatched + 1
    /\ ix' = NoEvent
    /\ UNCHANGED <<rt, db, ownerId, now, cooldowns, timers, lastPass, last, ev, pg, sr, events>>

IncidentsHandler ==
    \E m \in MessageIds, n \in 1..MaxIncidents, sendFails \in BOOLEAN :
        SendPaginatedMessage(m, Items(n, "none"), sendFails)

\* The handler of server-info sends the member list of the guild.
MemberPagination(m, userId, members, sendFails) ==
    /\ Quiet
    /\ dispatched < MaxEvents
    /\ ~messages[m].sent
    /\ messages' = [messages EXCEPT ![m] = setupMemberPagination(userId, members, sendFails)]
    /\ dispatched' = dispatched + 1
    /\ ix' = NoEvent
    /\ UNCHANGED <<rt, db, ownerId, now, cooldowns, timers, lastPass, last, ev, pg, sr,
                   paginators, events>>

MemberCounts == {0, 1} \cup {p * ITEMS_PER_PAGE + 1 : p \in 1..(MaxMemberPages - 1)}

ServerInfoHandler ==
    \E m \in MessageIds, n \in MemberCounts, sendFails \in BOOLEAN :
        MemberPagination(m, "u1", Items(n, "none"), sendFails)

\* collector.on('end'): the buttons are removed from the message.
CollectorEnd(m, editFails) ==
    /\ Quiet
    /\ messages[m].collector.live
    /\ messages' = [messages EXCEPT
                      ![m] = [Edited(@, Edit(@.embeds, <<>>, @.page, editFails))
                                EXCEPT !.collector.live = FALSE]]
    /\ ix' = NoEvent
    /\ UNCHANGED <<rt, db, ownerId, now, cooldowns, timers, lastPass, dispatched, last, ev,
                   pg, sr, paginators, events>>

CollectorEnds == \E m \in MessageIds, editFails \in BOOLEAN : CollectorEnd(m, editFails)

\* Somebody who may manage the message suppresses its embeds.
SuppressEmbeds(m) ==
    /\ Quiet
    /\ messages[m].sent
    /\ messages[m].embeds # <<>>
    /\ messages' = [messages EXCEPT ![m].embeds = <<>>]
    /\ ix' = NoEvent
    /\ UNCHANGED <<rt, db, ownerId, now, cooldowns, timers, lastPass, dispatched, last, ev,
                   pg, sr, paginators, events>>

EmbedsSuppressed == \E m \in MessageIds : SuppressEmbeds(m)

NextEvents ==
    \/ Gateway
    \/ DispatcherListener
    \/ CollectorListener
    \/ PaginationUpdateListener
    \/ IncidentsHandler
    \/ ServerInfoHandler
    \/ CollectorEnds
    \/ EmbedsSuppressed

SpecEvents == Init /\ [][NextEvents]_vars

(***************************************************************************)
(* withRetry on its own: any options, and a function that fails or         *)
(* succeeds at each call as it likes.                                      *)
(***************************************************************************)
InitRetry ==
    /\ ownerId = ConfiguredOwner
    /\ ev = NoEval
    /\ Started
    /\ pg = NoPagerCall
    /\ sr = NoReplyCall
    /\ PagesStarted
    /\ db = NoDatabase
    /\ rt \in {RetryCall(o.maxRetries, o.initialDelay, o.backoffFactor) :
                 o \in RetryOptions}

\* The options are read and the loop is entered.
WithRetry ==
    /\ rt.phase = "called"
    /\ rt' = [rt EXCEPT
                !.phase = "calling",
                !.maxRetries = OrDefault(rt.options.maxRetries, MAX_RETRIES),
                !.initialDelay = OrDefault(rt.options.initialDelay, INITIAL_DELAY_MS),
                !.backoffFactor = OrDefault(rt.options.backoffFactor, BACKOFF_FACTOR),
                !.delay = OrDefault(rt.options.initialDelay, INITIAL_DELAY_MS),
                !.attempt = 1]
    /\ UNCHANGED <<db, ownerId, now, cooldowns, timers, lastPass, dispatched, last, ev,
                   pg, sr, paginators, messages, ix, events>>

\* return await fn(), and the catch block up to the sleep.
CallFn(succeeds) ==
    /\ rt.phase = "calling"
    /\ rt' = IF succeeds
             THEN [rt EXCEPT !.phase = "returned",
                             !.outcomes = Append(@, TRUE),
                             !.value = rt.attempt]
             ELSE [rt EXCEPT !.phase = IF rt.attempt > rt.maxRetries
                                       THEN "threw" ELSE "sleeping",
                             !.outcomes = Append(@, FALSE),
                             !.lastError = rt.attempt,
                             !.thrown = IF rt.attempt > rt.maxRetries
                                        THEN rt.attempt ELSE 0]
    /\ UNCHANGED <<db, ownerId, now, cooldowns, timers, lastPass, dispatched, last, ev,
                   pg, sr, paginators, messages, ix, events>>

FnSettles == \E succeeds \in BOOLEAN : CallFn(succeeds)

\* await sleep(delay); delay *= backoffFactor; attempt++ and the loop test.
Sleep ==
    /\ rt.phase = "sleeping"
    /\ rt' = [rt EXCEPT
                !.phase = IF rt.attempt + 1 <= rt.maxRetries + 1
                          THEN "calling" ELSE "threw",
                !.thrown = IF rt.attempt + 1 <= rt.maxRetries + 1
                           THEN 0 ELSE rt.lastError,
                !.sleeps = Append(@, rt.delay),
                !.delay = rt.delay * rt.backoffFactor,
                !.attempt = rt.attempt + 1]
    /\ UNCHANGED <<db, ownerId, now, cooldowns, timers, lastPass, dispatched, last, ev,
                   pg, sr, paginators, messages, ix, events>>

NextRetry == WithRetry \/ FnSettles \/ Sleep

SpecRetry == InitRetry /\ [][NextRetry]_vars

(***************************************************************************)
(* A JsonDatabase whose calls interleave at their awaits.  The database is *)
(* initialized; the collection is cached or not; its file holds documents  *)
(* or does not exist, which reads as the empty collection.                 *)
(***************************************************************************)
InitDb ==
    /\ ownerId = ConfiguredOwner
    /\ ev = NoEval
    /\ Started
    /\ pg = NoPagerCall
    /\ sr = NoReplyCall
    /\ PagesStarted
    /\ rt = NoRetry
    /\ db \in {Database(<<>>, NoArray, StoredDocs),
               Database(<<StoredDocs>>, 1, StoredDocs),
               Database(<<>>, NoArray, <<>>)}

Settle(p, result) ==
    [db EXCEPT !.calls[p].pc = "done", !.calls[p].result = result,
               !.failed = @ \/ result \in {"read failed", "write failed"}]

\* A caller calls insert, updateById, deleteById or deleteAll: the call runs
\* to the await of _ensureInitialized in _readCollection, or for deleteAll in
\* _writeCollection, its argument a new empty array.
DbCall(p, operation) ==
    /\ db.calls[p].pc \in {"idle", "done"}
    /\ Len(db.log) < MaxDbCalls
    /\ LET call == [NoDbCall EXCEPT !.operation = operation,
                                    !.before = FindAllNow(db)]
       IN  db' = IF operation.op = "deleteAll"
                 THEN [db EXCEPT !.log = Append(@, operation),
                                 !.heap = Append(@, <<>>),
                                 !.calls[p] = [call EXCEPT !.pc = "write",
                                                           !.out = Len(db.heap) + 1]]
                 ELSE [db EXCEPT !.log = Append(@, operation),
                                 !.calls[p] = [call EXCEPT !.pc = "read"]]
    /\ UNCHANGED <<rt, ownerId, now, cooldowns, timers, lastPass, dispatched, last, ev,
                   pg, sr, paginators, messages, ix, events>>

Calls == \E p \in Callers, operation \in DbOperations : DbCall(p, operation)

\* _readCollection after its first await: the cached array is returned, or
\* fs.readFile is started.
DbCheckCache(p) ==
    /\ db.calls[p].pc = "read"
    /\ db' = IF db.cache # NoArray
             THEN [db EXCEPT !.calls[p].pc = "body", !.calls[p].data = db.cache]
             ELSE [db EXCEPT !.calls[p].pc = "reading"]
    /\ UNCHANGED <<rt, ownerId, now, cooldowns, timers, lastPass, dispatched, last, ev,
                   pg, sr, paginators, messages, ix, events>>

CacheChecks == \E p \in Callers : DbCheckCache(p)

\* fs.readFile settles: the parsed array is cached and returned; a missing
\* file gives a new empty array; any other error is rethrown.
DbReadFile(p, fails) ==
    /\ db.calls[p].pc = "reading"
    /\ db' = IF fails THEN Settle(p, "read failed")
             ELSE [db EXCEPT !.heap = Append(@, db.file),
                             !.cache = Len(db.heap) + 1,
                             !.calls[p].pc = "body",
                             !.calls[p].data = Len(db.heap) + 1]
    /\ UNCHANGED <<rt, ownerId, now, cooldowns, timers, lastPass, dispatched, last, ev,
                   pg, sr, paginators, messages, ix, events>>

FileReads == \E p \in Callers, fails \in BOOLEAN : DbReadFile(p, fails)

\* The call continues with the array read, up to the first await of
\* _writeCollection: insert pushes onto the array, updateById and deleteById
\* build a new array, or return when no document has the id.
DbBody(p) ==
    /\ db.calls[p].pc = "body"
    /\ LET operation == db.calls[p].operation
           data == db.heap[db.calls[p].data]
           allocated(array) ==
               [db EXCEPT !.heap = Append(@, array),
                          !.calls[p].pc = "write",
                          !.calls[p].out = Len(db.heap) + 1]
       IN  db' = CASE operation.op = "insert" ->
                        [db EXCEPT !.heap[db.calls[p].data] = Append(@, operation.document),
                                   !.calls[p].pc = "write",
                                   !.calls[p].out = db.calls[p].data]
                   [] operation.op = "updateById" ->
                        IF ~Finds(data, operation.id) THEN Settle(p, "null")
                        ELSE allocated(MapUpdate(data, operation.id, operation.document))
                   [] OTHER ->
                        IF Len(FilterOut(data, operation.id)) = Len(data)
                        THEN Settle(p, "false")
                        ELSE allocated(FilterOut(data, operation.id))
    /\ UNCHANGED <<rt, ownerId, now, cooldowns, timers, lastPass, dispatched, last, ev,
                   pg, sr, paginators, messages, ix, events>>

Bodies == \E p \in Callers : DbBody(p)

\* _writeCollection after its first await: the array is put in the cache,
\* serialized, and fs.writeFile is started.
DbWriteStart(p) ==
    /\ db.calls[p].pc = "write"
    /\ db' = [db EXCEPT !.cache = db.calls[p].out,
                        !.calls[p].pc = "writing",
                        !.calls[p].json = db.heap[db.calls[p].out]]
    /\ UNCHANGED <<rt, ownerId, now, cooldowns, timers, lastPass, dispatched, last, ev,
                   pg, sr, paginators, messages, ix, events>>

WriteStarts == \E p \in Callers : DbWriteStart(p)

\* fs.writeFile settles: the file holds what was serialized, or the write
\* failed and the call throws.
DbWriteDone(p, fails) ==
    /\ db.calls[p].pc = "writing"
    /\ db' = IF fails THEN Settle(p, "write failed")
             ELSE [Settle(p, "ok") EXCEPT !.file = db.calls[p].json]
    /\ UNCHANGED <<rt, ownerId, now, cooldowns, timers, lastPass, dispatched, last, ev,
                   pg, sr, paginators, messages, ix, events>>

WriteSettles == \E p \in Callers, fails \in BOOLEAN : DbWriteDone(p, fails)

NextDb == Calls \/ CacheChecks \/ FileReads \/ Bodies \/ WriteStarts \/ WriteSettles

SpecDb == InitDb /\ [][NextDb]_vars


(***************************************************************************)
(* The cooldown tracker.                                                   *)
(***************************************************************************)
\* The command and actor of the last dispatch, and that command's cooldown.
LastName == last.interaction.commandName
LastUser == last.interaction.userId
LastKnown == last.result # "none" /\ LastName \in CommandNames
LastAmount == CooldownAmount(Registry[LastName])

HasEntry(cds, n, u) == n \in DOMAIN cds /\ u \in DOMAIN cds[n]

\* C1: an invocation made strictly inside the cooldown window opened by the
\* same actor's last pass of the same command's cooldown gate is answered with
\* the cooldown warning, which reports the time left to the end of the window,
\* and the handler is not executed for it.
C1_WindowRejects ==
    (/\ LastKnown
     /\ last.prevPass # NoPass
     /\ last.prevPass < last.time
     /\ last.time < last.prevPass + LastAmount)
    => /\ last.result = "cooldown"
       /\ last.remainingMs = last.prevPass + LastAmount - last.time
       /\ last.replies = <<Reply("Command on Cooldown", <<>>, ToFixed1(last.remainingMs))>>
       /\ ~last.executed

\* A dispatch step: the gateway delivered an interaction in this step.
DispatchStep == dispatched' # dispatched

\* What a call for (n, u) would return in the current state.
CheckNow(n, u) == checkCommandCooldown(cooldowns, timers, now, Registry[n], u)

\* C2: a call that finds a live, unexpired entry changes neither the maps, nor
\* the entry, nor the timers, and returns the time left to the entry's expiry;
\* and while an entry stays as it is, the remaining time a rejected call
\* returns is the same at the same instant and strictly smaller once the clock
\* has advanced.
C2_RejectKeepsEntry ==
    [][/\ (DispatchStep /\ last'.result = "cooldown")
           => /\ cooldowns' = cooldowns
              /\ timers' = timers
              /\ lastPass' = lastPass
              /\ HasEntry(cooldowns, LastName', LastUser')
              /\ last'.remainingMs
                    = cooldowns[LastName'][LastUser'] + LastAmount' - DateNow(now)
       /\ \A n \in CommandNames, u \in Users :
            (/\ HasEntry(cooldowns, n, u) /\ HasEntry(cooldowns', n, u)
             /\ cooldowns'[n][u] = cooldowns[n][u]
             /\ ~CheckNow(n, u).isNull /\ ~CheckNow(n, u)'.isNull)
            => /\ now' > now => CheckNow(n, u)'.remainingMs < CheckNow(n, u).remainingMs
               /\ now' = now => CheckNow(n, u)'.remainingMs = CheckNow(n, u).remainingMs
      ]_vars

\* A call was rejected after the clock had advanced past the arming instant.
C2_Witness ==
    /\ LastKnown
    /\ last.result = "cooldown"
    /\ 0 < last.remainingMs /\ last.remainingMs < LastAmount

\* C3: a call returns null exactly when no entry is stored for the pair or the
\* stored entry has expired by the clock (now >= expiry), and then it stores an
\* entry expiring at now + cooldown and schedules one deletion at that instant;
\* in every other case it returns a positive remaining time.
C3_NullIffNoLiveEntry ==
    [][(DispatchStep /\ LastKnown')
        => LET n == LastName'
               u == LastUser'
               nowMs == DateNow(now)
               noEntry == ~HasEntry(cooldowns, n, u)
               expired == ~noEntry /\ nowMs >= cooldowns[n][u] + LastAmount'
           IN  IF noEntry \/ expired
               THEN /\ last'.result # "cooldown"
                    /\ HasEntry(cooldowns', n, u)
                    /\ cooldowns'[n][u] + LastAmount' = nowMs + LastAmount'
                    /\ timers' = timers (+) SetToBag({Timer(n, u, nowMs + LastAmount')})
               ELSE /\ last'.result = "cooldown"
                    /\ last'.remainingMs > 0
      ]_vars

\* A call re-armed an entry that had expired while its deletion was pending.
C3_Witness ==
    /\ LastKnown
    /\ last.result # "cooldown"
    /\ last.prevPass # NoPass
    /\ last.prevPass < last.time
    /\ BagIn(Timer(LastName, LastUser, last.prevPass + LastAmount), timers)
    /\ BagIn(Timer(LastName, LastUser, last.time + LastAmount), timers)

\* C4: an entry armed at time t with duration c is stored, unchanged, at every
\* instant before t + c, whatever deferred callbacks run in between.
C4_EntryLivesUntilExpiry ==
    \A n \in CommandNames, u \in Users :
        (lastPass[n, u] # NoPass
            /\ DateNow(now) < lastPass[n, u] + CooldownAmount(Registry[n]))
        => (HasEntry(cooldowns, n, u) /\ cooldowns[n][u] = lastPass[n, u])

(***************************************************************************)
(* The gates of the dispatcher, stated from the interaction alone.         *)
(***************************************************************************)
\* The bits an effective grant holds: an administrator holds them all.
Effective(grant) == IF Flags.Administrator \in grant.bits THEN FlagBits ELSE grant.bits

\* The canonical names of the required permissions that a grant lacks.
Lacking(permissions, grant) ==
    {FlagName(Resolve(p)) : p \in {q \in Range(permissions.list) :
                                        Resolve(q) \notin Effective(grant)}}

NonEmpty(permissions) == permissions.kind # "undefined" /\ permissions.list # <<>>

\* The grant of the actor, and of the bot, in the scope of an interaction.
ActorGrant(i) ==
    IF i.channel.present THEN i.channel.permissionsFor[i.userId] ELSE i.member.permissions
BotGrant(i) ==
    IF i.channel.present THEN i.channel.permissionsFor[BotId] ELSE i.guild.me.permissions

UserGateFails(i, command) ==
    /\ i.guild.present
    /\ NonEmpty(command.requiredPermissions)
    /\ i.userId # ownerId
    /\ ~ActorGrant(i).ok \/ Lacking(command.requiredPermissions, ActorGrant(i)) # {}

BotGateFails(i, command) ==
    /\ i.guild.present
    /\ NonEmpty(command.botRequiredPermissions)
    /\ ~BotGrant(i).ok \/ Lacking(command.botRequiredPermissions, BotGrant(i)) # {}

ReplyKinds(replies) == [k \in DOMAIN replies |-> replies[k].kind]

\* C5: a command invocation ends at the first failing gate in the order
\* lookup, cooldown, actor permission, bot permission: that gate's reply is the
\* only reply, no later gate is evaluated, and the handler runs only when no
\* gate fails.
C5_FirstFailingGate ==
    [][DispatchStep
        => LET i == last'.interaction
               n == i.commandName
               u == i.userId
               known == n \in CommandNames
               command == Registry[n]
               onCooldown == /\ HasEntry(cooldowns, n, u)
                             /\ DateNow(now) < cooldowns[n][u] + CooldownAmount(command)
           IN  IF ~known
               THEN /\ last'.gates = <<"lookup">>
                    /\ ReplyKinds(last'.replies) = <<"Command Not Found">>
                    /\ ~last'.executed
                    /\ cooldowns' = cooldowns /\ timers' = timers
               ELSE IF onCooldown
               THEN /\ last'.gates = <<"lookup", "cooldown">>
                    /\ ReplyKinds(last'.replies) = <<"Command on Cooldown">>
                    /\ ~last'.executed
               ELSE IF UserGateFails(i, command)
               THEN /\ last'.gates = <<"lookup", "cooldown", "user">>
                    /\ ReplyKinds(last'.replies) = <<"Missing Permissions">>
                    /\ ~last'.executed
               ELSE IF BotGateFails(i, command)
               THEN /\ last'.gates = <<"lookup", "cooldown", "user", "bot">>
                    /\ ReplyKinds(last'.replies) = <<"Missing Bot Permissions">>
                    /\ ~last'.executed
               ELSE /\ last'.gates = <<"lookup", "cooldown", "user", "bot">>
                    /\ last'.executed
                    /\ ReplyKinds(last'.replies) \in {<<>>, <<"Command Error">>}
      ]_vars

\* An actor on cooldown who also lacks a required permission got the cooldown
\* warning.
C5_Witness ==
    /\ LastKnown
    /\ last.result = "cooldown"
    /\ UserGateFails(last.interaction, Registry[LastName])

\* What the actor lacks of a command's required permissions: outside a guild
\* the actor holds no grant at all.
ActorLacks(i, command) ==
    IF i.guild.present THEN Lacking(command.requiredPermissions, ActorGrant(i))
    ELSE Lacking(command.requiredPermissions, Grant({}))

\* The invocation reached the permission gates, the command requires
\* something of the actor, the actor is not the owner, and the actor's grant
\* could be read.
C6_Reached ==
    /\ LastKnown
    /\ last.result # "cooldown"
    /\ NonEmpty(Registry[LastName].requiredPermissions)
    /\ LastUser # ownerId
    /\ last.interaction.guild.present => ActorGrant(last.interaction).ok

C6_Enumerated ==
    /\ ReplyKinds(last.replies) = <<"Missing Permissions">>
    /\ Range(last.replies[1].lines)
          = {TitleCase[m] : m \in ActorLacks(last.interaction, Registry[LastName])}
    /\ Len(last.replies[1].lines)
          = Cardinality(ActorLacks(last.interaction, Registry[LastName]))
    /\ ~last.executed

\* C6 as claimed: whenever a non-owner actor lacks a required permission, in
\* a guild or not, the reply lists exactly the missing permissions and the
\* handler does not run.
C6_AnyContext ==
    (C6_Reached /\ ActorLacks(last.interaction, Registry[LastName]) # {})
        => C6_Enumerated

\* C6, amended: when a non-owner actor invoking a command in a guild lacks a
\* required permission, the reply lists exactly the missing permissions and
\* the handler does not run.
C6_InGuild ==
    (/\ C6_Reached
     /\ last.interaction.guild.present
     /\ ActorLacks(last.interaction, Registry[LastName]) # {})
        => C6_Enumerated

\* An actor holding one of two required permissions was told about the other.
C6_Witness ==
    /\ C6_Reached
    /\ last.interaction.guild.present
    /\ LastName = "purge"
    /\ ActorLacks(last.interaction, Registry[LastName]) = {"EmbedLinks"}
    /\ last.replies = <<Reply("Missing Permissions", <<"Embed Links">>, 0)>>

\* C10: when reading the actor's or the bot's grant throws, the gate that
\* reads it denies the command with an empty missing list, the dispatch
\* completes, and the handler does not run.
C10_FailClosed ==
    (LastKnown /\ last.result # "cooldown")
        => LET i == last.interaction
               command == Registry[LastName]
               read(required) == i.guild.present /\ NonEmpty(required)
               userThrows == /\ read(command.requiredPermissions)
                             /\ LastUser # ownerId
                             /\ ~ActorGrant(i).ok
               botThrows == /\ ~UserGateFails(i, command)
                            /\ read(command.botRequiredPermissions)
                            /\ ~BotGrant(i).ok
           IN  /\ userThrows
                    => /\ last.result = "false"
                       /\ last.replies = <<Reply("Missing Permissions", <<"None">>, 0)>>
                       /\ ~last.executed
               /\ botThrows
                    => /\ last.result = "false"
                       /\ last.replies = <<Reply("Missing Bot Permissions", <<"None">>, 0)>>
                       /\ ~last.executed

\* The actor's grant could not be read and the command was denied.
C10_Witness ==
    /\ LastKnown
    /\ last.interaction.guild.present
    /\ ~ActorGrant(last.interaction).ok
    /\ last.replies = <<Reply("Missing Permissions", <<"None">>, 0)>>
    /\ ~last.executed

(***************************************************************************)
(* The permission evaluator.                                               *)
(***************************************************************************)
Returned == ev.phase = "returned"
EvalOwner == ownerId # NoOwner /\ ev.member.present /\ ev.member.id = ownerId
EvalGrant ==
    IF ev.channel.present THEN ev.channel.permissionsFor[ev.member.id]
    ELSE ev.member.permissions
EmptyRequired == ev.permissions.kind = "array" /\ ev.permissions.list = <<>>

\* C7: for an actor who is the configured owner, evaluation allows and reports
\* nothing missing, whatever the required set, the scope and the grant.
C7_OwnerBypass ==
    (Returned /\ EvalOwner /\ ev.permissions.kind # "undefined")
        => (ev.allowed /\ ev.missing = <<>>)

\* The owner was allowed something the owner's grant does not hold or that
\* could not be read.
C7_Witness ==
    /\ Returned /\ EvalOwner /\ ev.allowed
    /\ ev.permissions.list # <<>>
    /\ ~EvalGrant.ok \/ Lacking(ev.permissions, EvalGrant) # {}

\* C8 as claimed: for an empty required set evaluation allows and reports
\* nothing missing in every context.
C8_AnyContext ==
    (Returned /\ EmptyRequired) => (ev.allowed /\ ev.missing = <<>>)

\* C8, amended: for an empty required set nothing is reported missing and the
\* dispatcher's gate passes without a reply in every context, and
\* hasPermissions allows exactly when an actor object is present and the actor
\* is the owner or the grant of the checked scope can be read.
C8_EmptyRequired ==
    (Returned /\ EmptyRequired)
        => /\ ev.missing = <<>>
           /\ ev.gate /\ ev.gateReplies = <<>>
           /\ ev.allowed <=> (ev.member.present /\ (EvalOwner \/ EvalGrant.ok))

\* An empty required set passed the gate in a guild although the actor's grant
\* could not be read.
C8_Witness ==
    /\ Returned /\ EmptyRequired
    /\ ev.guild /\ ev.member.present /\ ~EvalOwner /\ ~EvalGrant.ok
    /\ ev.gate /\ ~ev.allowed

\* C9: for a present actor who is not the owner and whose grant can be read,
\* the missing names are those of the required permissions that the effective
\* grant lacks, the grant being the channel's when a channel is given and the
\* guild-wide one otherwise, and evaluation allows exactly when none is missing.
C9_MissingIsDifference ==
    (/\ Returned
     /\ ev.member.present /\ ~EvalOwner
     /\ ev.permissions.kind # "undefined"
     /\ EvalGrant.ok)
        => /\ Range(ev.missing) = Lacking(ev.permissions, EvalGrant)
           /\ ev.allowed <=> (ev.missing = <<>>)

\* A channel grant that lacks what the guild-wide grant holds decided.
C9_Witness ==
    /\ Returned
    /\ ev.member.present /\ ~EvalOwner
    /\ ev.channel.present /\ EvalGrant.ok /\ ev.member.permissions.ok
    /\ Lacking(ev.permissions, ev.member.permissions) = {}
    /\ Range(ev.missing) = {"SendMessages", "EmbedLinks"}
    /\ ~ev.allowed

(***************************************************************************)
(* Faults: the handler's, and those of the calls made to answer.           *)
(***************************************************************************)
\* The interactionCreate listener has handled the interaction.
Dispatched == ix.interaction.kind # "none" /\ "dispatcher" \notin ix.pending

\* The command's handler was executed and threw.
HandlerFaulted ==
    Dispatched /\ ix.interaction.kind = "command" /\ ix.executed /\ ix.result # "true"

\* C11: when the handler of a command throws, handleSlashCommand returns
\* false instead of throwing, what it sends is the "Command Error" notice and
\* nothing else (one send, or two when the first one failed), nothing is
\* emitted, and nothing escapes from execute.
C11_HandlerFaultContained ==
    HandlerFaulted =>
        /\ ix.result = "false"
        /\ ~ix.escaped
        /\ Len(ix.sends) \in {1, 2}
        /\ \A i \in 1..Len(ix.sends) : ix.sends[i].content = "Command Error"
        /\ ix.acks = <<>>
        /\ ix.emitted = <<>>

\* The handler threw and the notice went out at the second attempt.
C11_Witness ==
    /\ HandlerFaulted
    /\ Len(ix.sends) = 2
    /\ ix.sends[2].ok

\* C12: whatever kind of event is delivered and whichever calls fail while
\* it is handled, nothing escapes from execute of the interactionCreate
\* listener nor from execute of the paginationUpdate listener.
C12_NothingEscapes == ~ix.escaped

\* The update of a confirmation button failed, which handleConfirmationButton
\* does not catch, and the listener has finished.
C12_Witness ==
    /\ Dispatched
    /\ ix.interaction.customId = "confirm"
    /\ ix.acks # <<>>
    /\ ~ix.acks[1].ok
    /\ ~ix.escaped

\* The options carried the ephemeral setting, as a property or as a flag.
CarriesEphemeral(options) ==
    options.ephemeral \/ \E i \in 1..Len(options.flags.list) : options.flags.list[i] = "Ephemeral"

C14_SentIsRegistered ==
    /\ \A m \in MessageIds :
          (messages[m].sent /\ messages[m].by = "sendPaginatedMessage")
              => PaginatorKey(m) \in DOMAIN paginators
    /\ (ix.update.path # "none"
        /\ messages[ix.update.messageId].by = "sendPaginatedMessage")
            => ix.update.path = "page"

\* The message shows the expired notice and nothing else.
ExpiredNotice(message) ==
    /\ Len(message.embeds) = 1
    /\ message.embeds[1].footerText = <<"Pagination expired due to bot restart or timeout">>
    /\ message.embeds[1].fields = <<>>

\* A paginationUpdate was handled for a message without a controller, and the
\* edit, if one was made, went through.
FallbackTaken ==
    /\ ix.update.path \in {"expired", "nocomponents"}
    /\ ~(ix.update.edit.tried /\ ~ix.update.edit.ok)

\* C15: after a paginationUpdate for a message that has no controller in the
\* registry, the message shows the expired notice and has no component left,
\* and nothing escaped, whatever the message showed before.
C15_ExpiredFallback ==
    FallbackTaken =>
        /\ ~ix.escaped
        /\ ExpiredNotice(messages[ix.update.messageId])
        /\ messages[ix.update.messageId].components = <<>>

\* The interaction is a click on a navigation button.
NavigationClick == ix.interaction.kind = "button" /\ ix.interaction.customId \in NavigationIds

\* C16: a click on a navigation button is acknowledged by the button handler
\* of the dispatcher alone, with one deferUpdate: no other listener calls an
\* acknowledgement on the same interaction.
C16_OnlyDispatcherAcknowledges ==
    NavigationClick =>
        /\ Len(ix.acks) <= 1
        /\ \A i \in 1..Len(ix.acks) :
              ix.acks[i].by = "dispatcher" /\ ix.acks[i].method = "deferUpdate"

\* The candidate page of the clamp rule, for the page index and page count
\* of the message as it was when the button was clicked.
Candidate(customId, current, total) ==
    CASE customId = "first" -> 0
      [] customId = "prev" -> IF current - 1 < 0 THEN 0 ELSE current - 1
      [] customId = "next" -> IF current + 1 > total - 1 THEN total - 1 ELSE current + 1
      [] customId = "last" -> total - 1

DispatcherAcks == SelectSeq(ix.acks, LAMBDA a : a.by = "dispatcher")

ItemCount == Len(pg.items)
PageSize == IF pg.itemsPerPage = 0 THEN DEFAULT_ITEMS_PER_PAGE ELSE pg.itemsPerPage
PageCount == pg.paginator.pageCount
Built == pg.phase \in {"built", "rendered"}
Rendered == pg.phase = "rendered"

\* The index a page request is clamped to.
Clamped(n, pageCount) == IF n < 0 THEN 0 ELSE IF n > pageCount - 1 THEN pageCount - 1 ELSE n

\* The page indicator and the navigation buttons of the page rendered.
Buttons == pg.rendered.components[1].components
Indicator == Buttons[3].label
Enabled == {Buttons[i].customId : i \in {i \in 1..Len(Buttons) : ~Buttons[i].disabled}}

\* C18: for a list of at least one item, the page count is the least number
\* of pages of the page size that hold the list, whenever it is read, and
\* getPage(n) renders the page of index max(0, min(n, pageCount - 1)), which
\* is a page of the controller, and says so on the indicator.
C18_PageCountAndClamp ==
    (Built /\ ItemCount >= 1) =>
        /\ PageCount >= 1
        /\ PageCount * PageSize >= ItemCount
        /\ (PageCount - 1) * PageSize < ItemCount
        /\ Rendered =>
              /\ pg.rendered.currentPage = Clamped(pg.page, PageCount)
              /\ pg.rendered.currentPage \in 0..(PageCount - 1)
              /\ Indicator = PageLabel(Clamped(pg.page, PageCount), PageCount)
              /\ Len(pg.rendered.embeds) = 1

\* A page far past the last one was asked of a controller of several pages.
C18_Witness ==
    /\ Rendered
    /\ ItemCount >= 1
    /\ PageCount >= 2
    /\ pg.page > PageCount
    /\ pg.rendered.currentPage = PageCount - 1

\* C19: a controller built from an empty list renders, for every page asked,
\* page index 0 with an empty listing, the indicator "1/1", and no
\* navigation button enabled.
C19_EmptyListOnePage ==
    (Rendered /\ ItemCount = 0) =>
        /\ pg.rendered.currentPage = 0
        /\ pg.rendered.embeds[1].fields = <<>>
        /\ Indicator = <<"1", "/", "1">>
        /\ Enabled = {}

\* The items at positions [c * k, min((c + 1) * k, N)) of the list.
SliceOf(c) ==
    LET lo == c * PageSize
        hi == IF (c + 1) * PageSize < ItemCount THEN (c + 1) * PageSize ELSE ItemCount
    IN  [j \in 1..(hi - lo) |-> pg.items[lo + j]]

FieldIds(fields) == [i \in 1..Len(fields) |-> fields[i].of]
ItemIds(items) == [i \in 1..Len(items) |-> items[i].id]
Formattable(item) == item.blank = "none"

\* C20 as stated: the page lists every item of its slice, in list order.
C20_AllItemsListed ==
    (Rendered /\ pg.page \in 0..(PageCount - 1)) =>
        FieldIds(pg.rendered.embeds[1].fields) = ItemIds(SliceOf(pg.page))

\* Over the pages of the controller, how often the item is listed.
Listings(id) ==
    {<<p, i>> \in (0..(PageCount - 1)) \X (1..PageSize) :
        LET fields == getPage(pg.paginator, p).embeds[1].fields
        IN  i <= Len(fields) /\ fields[i].of = id}

\* C20: the page lists, in list order, the items of its slice for which
\* formatItem gives a name and a value, each as formatItem gives it; over the
\* pages of the controller each such item is listed once; and 23 items by 5
\* give 5 pages, "last" from page 0 leading to page index 4, which lists the
\* last 3 items.
C20_FormattableListed ==
    /\ (Rendered /\ pg.page \in 0..(PageCount - 1)) =>
          /\ FieldIds(pg.rendered.embeds[1].fields)
                = ItemIds(SelectSeq(SliceOf(pg.page), Formattable))
          /\ \A i \in 1..Len(pg.rendered.embeds[1].fields) :
                LET field == pg.rendered.embeds[1].fields[i]
                IN  field.name # "" /\ field.value # ""
    /\ Built =>
          \A i \in 1..ItemCount :
              Cardinality(Listings(pg.items[i].id))
                  = IF Formattable(pg.items[i]) THEN 1 ELSE 0
    /\ (Built /\ ItemCount = 23 /\ PageSize = 5) =>
          /\ PageCount = 5
          /\ calculateNewPage("last", 0, PageCount) = 4
          /\ FieldIds(getPage(pg.paginator, 4).embeds[1].fields)
                = ItemIds(SelectSeq(SubSeq(pg.items, 21, 23), Formattable))

\* The last page of 23 items by 5 was rendered, one of its items having no
\* name: two fields.
C20_Witness ==
    /\ Rendered
    /\ ItemCount = 23
    /\ PageSize = 5
    /\ pg.page = 4
    /\ Len(pg.rendered.embeds[1].fields) = 2

\* The page index shown after a click on the control: the dispatcher's
\* candidate page, rendered by the controller.
PageAfterClick(customId) ==
    getPage(pg.paginator,
            calculateNewPage(customId, pg.rendered.currentPage, PageCount)).currentPage

Disabled(customId) ==
    \E i \in 1..Len(Buttons) : Buttons[i].customId = customId /\ Buttons[i].disabled

\* C21: on a rendered page, first and prev are disabled exactly when the page
\* index is 0, next and last exactly when it is pageCount - 1, and a click on
\* an enabled navigation control changes the page index.
C21_EnabledControlsMove ==
    Rendered =>
        /\ Disabled("first") <=> pg.rendered.currentPage = 0
        /\ Disabled("prev") <=> pg.rendered.currentPage = 0
        /\ Disabled("next") <=> pg.rendered.currentPage = PageCount - 1
        /\ Disabled("last") <=> pg.rendered.currentPage = PageCount - 1
        /\ \A customId \in Enabled \cap NavigationIds :
              PageAfterClick(customId) # pg.rendered.currentPage

\* C22: the indicator of a rendered page, split at the slash and parsed,
\* gives back the page index rendered and the page count of the controller.
C22_LabelRoundTrip ==
    Rendered =>
        LET info == extractPaginationInfo(pg.rendered)
        IN  /\ ~info.threw
            /\ info.currentPage = pg.rendered.currentPage
            /\ info.totalPages = PageCount

\* A page whose number and page count both take two digits was rendered.
C22_Witness ==
    /\ Rendered
    /\ pg.rendered.currentPage >= 10
    /\ PageCount >= 12
    /\ extractPaginationInfo(pg.rendered).currentPage = pg.rendered.currentPage

(***************************************************************************)
(* Frame conditions of the dispatcher.                                     *)
(***************************************************************************)
\* C23: dispatching an invocation whose command name is not registered is
\* answered with the NotFound reply alone, runs no handler, and leaves the
\* cooldown maps, the timers and the pagination registry as they were, in
\* whatever state the dispatcher is, so also when the invocation is repeated.
C23_NotFoundNoEffect ==
    [][(DispatchStep /\ LastName' \notin CommandNames)
        => /\ last'.result = "notfound"
           /\ ReplyKinds(last'.replies) = <<"Command Not Found">>
           /\ last'.gates = <<"lookup">>
           /\ ~last'.executed
           /\ cooldowns' = cooldowns
           /\ timers' = timers
           /\ lastPass' = lastPass
           /\ paginators' = paginators]_vars

\* An unknown name was dispatched, after two other dispatches, while cooldown
\* entries and timers of registered commands were pending.
C23_Witness ==
    /\ dispatched >= 3
    /\ last.result = "notfound"
    /\ LastName = UnknownName
    /\ \E n \in DOMAIN cooldowns : DOMAIN cooldowns[n] # {}
    /\ timers # EmptyBag
    /\ UnknownName \notin DOMAIN cooldowns

\* The arming time of the pair in the maps, or NoPass.
Entry(cds, n, u) == IF HasEntry(cds, n, u) THEN cds[n][u] ELSE NoPass

\* The maps with every entry but the pair's left out.
OnlyEntry(cds, n, u) ==
    IF HasEntry(cds, n, u) THEN (n :> (u :> cds[n][u])) ELSE [m \in {} |-> EmptyMap]

\* A step in which the expiry callback t ran.
ExpiryStep(t) == ~DispatchStep /\ BagIn(t, timers) /\ timers' = timers (-) SetToBag({t})

\* The pairs other than (n, u) keep their entries, and the commands other
\* than n their maps.
OthersKept(n, u) ==
    /\ \A m \in CommandNames, v \in Users :
          (m # n \/ v # u) => Entry(cooldowns', m, v) = Entry(cooldowns, m, v)
    /\ DOMAIN cooldowns' \ {n} = DOMAIN cooldowns \ {n}

\* C24: a cooldown check for (A, u), and the expiry callback of the entry of
\* (A, u), leave the entries of every other pair and the maps of every other
\* command as they were, and the check returns what it would return if the
\* entry of (A, u) were the only one.
C24_PerCommandStorage ==
    [][/\ (DispatchStep /\ LastName' \in CommandNames)
           => /\ OthersKept(LastName', LastUser')
              /\ LET alone == checkCommandCooldown(
                                  OnlyEntry(cooldowns, LastName', LastUser'), timers,
                                  now, Registry[LastName'], LastUser')
                 IN  /\ (last'.result = "cooldown") <=> ~alone.isNull
                     /\ last'.remainingMs = alone.remainingMs
                     /\ Entry(cooldowns', LastName', LastUser')
                            = Entry(alone.cooldowns, LastName', LastUser')
       /\ \A t \in BagToSet(timers) : ExpiryStep(t) => OthersKept(t.name, t.userId)]_vars

\* The cooldown gate was passed for a pair while the same actor held an entry
\* of another command and another actor an entry of the same command.
C24_Witness ==
    /\ LastKnown
    /\ last.result # "cooldown"
    /\ \E m \in CommandNames \ {LastName} : HasEntry(cooldowns, m, LastUser)
    /\ \E v \in Users \ {LastUser} : HasEntry(cooldowns, LastName, v)

\* The invocation just dispatched passed the cooldown gate.
PassedCooldown == LastKnown /\ last.result # "cooldown"

\* The pair of the invocation just dispatched is armed at the time of the
\* dispatch, its expiry callback pending.
ArmedNow ==
    /\ Entry(cooldowns, LastName, LastUser) = last.time
    /\ BagIn(Timer(LastName, LastUser, last.time + LastAmount), timers)

\* C28: an invocation that passed the cooldown gate leaves its pair armed at
\* the time of the invocation, whether a permission gate then rejected it,
\* its handler threw or its handler returned; the cooldown gate comes before
\* the permission gates; so a handler that ran did so with the pair armed.
C28_NoRollback ==
    PassedCooldown =>
        /\ ArmedNow
        /\ SubSeq(last.gates, 1, 2) = <<"lookup", "cooldown">>
        /\ last.executed => ArmedNow

\* The actor permission gate rejected an invocation, whose handler did not
\* run, and the pair is armed all the same.
C28_Witness ==
    /\ PassedCooldown
    /\ last.gates = <<"lookup", "cooldown", "user">>
    /\ ~last.executed
    /\ last.time > 0
    /\ ArmedNow

(***************************************************************************)
(* Confirmation buttons and components without a handler.                  *)
(***************************************************************************)
ConfirmationClick ==
    ix.interaction.kind = "button" /\ ix.interaction.customId \in {"confirm", "cancel"}

EmittedNames == [i \in DOMAIN ix.emitted |-> ix.emitted[i].name]

\* C25: when the dispatcher has handled a click on confirm (cancel), it has
\* called one update that shows the confirmed (cancelled) notice and removes
\* all components; when the update went through it has emitted
\* confirmationAccepted (confirmationRejected) once and nothing else, and
\* when the update failed it has emitted nothing.
C25_UpdateThenEmit ==
    (Dispatched /\ ConfirmationClick) =>
        LET confirmed == ix.interaction.customId = "confirm"
        IN  /\ Len(ix.acks) = 1
            /\ ix.acks[1].method = "update"
            /\ ix.acks[1].embed = IF confirmed THEN "Action Confirmed"
                                  ELSE "Action Cancelled"
            /\ ix.acks[1].stripped
            /\ ix.sends = <<>>
            /\ ix.acks[1].ok =>
                  EmittedNames = IF confirmed THEN <<"confirmationAccepted">>
                                 ELSE <<"confirmationRejected">>
            /\ ~ix.acks[1].ok => ix.emitted = <<>>

\* The update of a cancel click failed and nothing was emitted.
C25_Witness ==
    /\ Dispatched
    /\ ix.interaction.customId = "cancel"
    /\ Len(ix.acks) = 1
    /\ ~ix.acks[1].ok
    /\ ix.emitted = <<>>

\* The interaction is a select menu, a modal submit, or a button that is
\* neither a confirmation nor a navigation button.
Unhandled(interaction) ==
    \/ interaction.kind \in {"select", "modal"}
    \/ /\ interaction.kind = "button"
       /\ interaction.customId \notin {"confirm", "cancel"} \cup NavigationIds

Delivered == SelectSeq(ix.sends, LAMBDA send : send.ok)

\* C26 as stated: the interaction ends with exactly one reply, which is the
\* ephemeral "not implemented" notice.
C26_OneEphemeralReply ==
    (Dispatched /\ Unhandled(ix.interaction)) =>
        /\ Len(Delivered) = 1
        /\ Delivered[1].content = "Not Implemented"
        /\ CarriesEphemeral(Delivered[1])

\* A step in which execute of the interactionCreate listener ran.
ExecuteStep == "dispatcher" \in ix.pending /\ "dispatcher" \notin ix'.pending

\* C26: such an interaction is answered through one call of safeReply with
\* the ephemeral "not implemented" notice: one ephemeral reply when the send
\* goes through; when it fails, one retry without the ephemeral setting, so
\* that one notice or none is delivered; and the cooldown maps, the timers
\* and the pagination registry are left as they were.
C26_NoticeAndNoEffect ==
    [][(ExecuteStep /\ Unhandled(ix.interaction))
        => /\ Len(ix'.sends) \in {1, 2}
           /\ \A i \in 1..Len(ix'.sends) : ix'.sends[i].content = "Not Implemented"
           /\ CarriesEphemeral(ix'.sends[1])
           /\ Len(ix'.sends) = 2 <=> ~ix'.sends[1].ok
           /\ Len(ix'.sends) = 2 => ~CarriesEphemeral(ix'.sends[2])
           /\ \A i \in 1..Len(ix'.sends) : ix'.sends[i].ok => i = Len(ix'.sends)
           /\ ix'.acks = ix.acks
           /\ ix'.emitted = <<>>
           /\ ~ix'.executed
           /\ cooldowns' = cooldowns
           /\ timers' = timers
           /\ paginators' = paginators
           /\ messages' = messages]_vars

\* A modal submit was answered at the second attempt, without the ephemeral
\* setting, while a cooldown entry was armed.
C26_Witness ==
    /\ Dispatched
    /\ ix.interaction.kind = "modal"
    /\ Len(ix.sends) = 2
    /\ ix.sends[2].ok
    /\ ~CarriesEphemeral(ix.sends[2])
    /\ \E n \in DOMAIN cooldowns : DOMAIN cooldowns[n] # {}

(***************************************************************************)
(* withRetry.                                                              *)
(***************************************************************************)
RECURSIVE Power(_, _)
Power(base, exponent) == IF exponent = 0 THEN 1 ELSE base * Power(base, exponent - 1)

RetrySettled == rt.phase \in {"returned", "threw"}

\* C27: a call with maxRetries m supplied, m >= 0, settles after at most
\* m + 1 calls of fn; it returns the result of the first call that succeeds,
\* which is the last call made; it throws only after m + 1 failed calls, the
\* error of the last one; it has waited initialDelay * backoffFactor^(i - 1)
\* after the failed call i, and not after the last call.
C27_AtMostMPlusOneCalls ==
    (RetrySettled /\ rt.options.maxRetries.given) =>
        LET m == rt.options.maxRetries.value
            calls == Len(rt.outcomes)
        IN  /\ calls <= m + 1
            /\ \A i \in 1..(calls - 1) : ~rt.outcomes[i]
            /\ rt.phase = "returned" => (rt.outcomes[calls] /\ rt.value = calls)
            /\ rt.phase = "threw" =>
                  (calls = m + 1 /\ ~rt.outcomes[calls] /\ rt.thrown = calls)
            /\ Len(rt.sleeps) = calls - 1
            /\ \A i \in 1..Len(rt.sleeps) :
                  rt.sleeps[i] = rt.initialDelay * Power(rt.backoffFactor, i - 1)

(***************************************************************************)
(* JsonDatabase.                                                           *)
(***************************************************************************)
\* What the call does to a collection when nothing else runs.
Apply(operation, docs) ==
    CASE operation.op = "insert" -> Append(docs, operation.document)
      [] operation.op = "updateById" ->
            [i \in 1..Len(docs) |-> IF docs[i].id = operation.id
                                    THEN operation.document ELSE docs[i]]
      [] operation.op = "deleteById" -> SelectSeq(docs, LAMBDA d : d.id # operation.id)
      [] OTHER -> <<>>

DbQuiet == \A p \in Callers : db.calls[p].pc \in {"idle", "done"}
NoFailure == ~db.failed

\* C29: when two calls among insert, updateById, deleteById have completed
\* without failure, the collection findAll returns is the one obtained by
\* applying both, in one order or the other, to the documents the collection
\* had, however the calls interleaved and cached or not.
C29_NoLostWrite ==
    (DbQuiet /\ NoFailure /\ Len(db.log) = 2
     /\ db.log[1].op # "deleteAll" /\ db.log[2].op # "deleteAll") =>
        FindAllNow(db) \in {Apply(db.log[2], Apply(db.log[1], db.opened)),
                           Apply(db.log[1], Apply(db.log[2], db.opened))}

\* C30: when the write of the only call made so far has failed, the call has
\* thrown and the collection reads as it did before the call.
C30_FailedWriteNoEffect ==
    \A p \in Callers :
        (Len(db.log) = 1 /\ db.calls[p].pc = "done"
         /\ db.calls[p].result = "write failed") =>
            FindAllNow(db) = db.calls[p].before

====
